---- MODULE Spec2Model ----
(***************************************************************************)
(* A model of fast-BM25: the tokenizer (src/src/tokenizer.ts), the BM25    *)
(* index (src/src/index.ts) and the parallel-build worker                  *)
(* (src/src/worker.ts).                                                    *)
(*                                                                         *)
(* A text is a sequence of characters; a character is a string naming one  *)
(* code point ("a", "!", "E_ACUTE", ...).  A word or term is a sequence of *)
(* characters too.  A document is the sequence of its [field, text]        *)
(* entries in Object.entries order.                                        *)
(***************************************************************************)
EXTENDS Integers, Sequences, FiniteSets, TLC

\* ------------------------------------------------------------------------
\* Generic helpers over sequences
\* ------------------------------------------------------------------------

RECURSIVE Flatten(_)
Flatten(ss) == IF ss = <<>> THEN <<>> ELSE Head(ss) \o Flatten(Tail(ss))

RECURSIVE SumSeq(_)
SumSeq(s) == IF s = <<>> THEN 0 ELSE Head(s) + SumSeq(Tail(s))

EndsWith(w, suf) ==
    /\ Len(w) >= Len(suf)
    /\ SubSeq(w, Len(w) - Len(suf) + 1, Len(w)) = suf

DropLast(w, n) == SubSeq(w, 1, Len(w) - n)

RECURSIVE Gcd(_, _)
Gcd(a, b) == IF b = 0 THEN a ELSE Gcd(b, a % b)

\* ------------------------------------------------------------------------
\* Characters
\* ------------------------------------------------------------------------

Lowers == <<"a","b","c","d","e","f","g","h","i","j","k","l","m",
            "n","o","p","q","r","s","t","u","v","w","x","y","z">>
Uppers == <<"A","B","C","D","E","F","G","H","I","J","K","L","M",
            "N","O","P","Q","R","S","T","U","V","W","X","Y","Z">>

LowerLetters == { Lowers[i] : i \in 1..26 }
Digits == {"0","1","2","3","4","5","6","7","8","9"}
Vowels == {"a","e","i","o","u"}

\* control and zero-width characters: U+0000-001F, U+007F-009F, U+200B-200D, U+FEFF
ControlChars == {"TAB", "LF", "ZWSP", "ZWJ", "BOM"}
\* combining diacritical marks: U+0300-036F
CombiningMarks == {"COMB_ACUTE"}
\* [\p{Extended_Pictographic}\p{Emoji}\p{Emoji_Component}\p{Symbol}\p{So}]
\* with the u flag: the ASCII digits, '#' and '*' have the Emoji property.
EmojiOrSymbol == Digits \cup {"#", "*", "+", "$", "COPYRIGHT", "REGISTERED", "WAVE"}
\* [\p{P}]
Punctuation == {"!", ",", ".", "?", "'", "-", "KATAKANA_MIDDLE_DOT"}
\* kept non-ASCII ranges: U+3040-30FF, U+3400-4DBF, U+4E00-9FFF, U+AC00-D7AF
CJKChars == {"CJK_SE", "CJK_KAI", "KANA_KA", "KANA_VOICED_MARK", "HANGUL_HAN"}
\* \s after the control characters are gone
WhiteSpace == {" ", "IDEOGRAPHIC_SPACE"}

\* String.prototype.toLowerCase, one code point
ToLowerChar(c) ==
    IF \E i \in 1..26 : Uppers[i] = c
    THEN Lowers[CHOOSE i \in 1..26 : Uppers[i] = c]
    ELSE IF c = "E_ACUTE_CAP" THEN "E_ACUTE" ELSE c

\* String.prototype.normalize('NFKD'), one code point
NFKDChar(c) ==
    CASE c = "E_ACUTE"  -> <<"e", "COMB_ACUTE">>
      [] c = "TM"        -> <<"T", "M">>
      [] c = "NBSP"      -> <<" ">>
      [] c = "DBL_EXCL"  -> <<"!", "!">>
      [] c = "KANA_GA"   -> <<"KANA_KA", "KANA_VOICED_MARK">>
      [] c = "HANGUL_HAN" -> <<"JAMO_H", "JAMO_A", "JAMO_N">>
      [] OTHER           -> <<c>>

RECURSIVE MapChars(_, _)
\* replace every character c of s by Op-table entry: "del" deletes,
\* "sp" replaces by a space, "keep" keeps
MapChars(s, cls) ==
    IF s = <<>> THEN <<>>
    ELSE LET c == Head(s)
             r == IF c \in cls.del THEN <<>>
                  ELSE IF c \in cls.sp THEN <<" ">>
                  ELSE <<c>>
         IN  r \o MapChars(Tail(s), cls)

RECURSIVE ReplaceOutside(_, _)
\* replace every character outside the set keep by a space
ReplaceOutside(s, keep) ==
    IF s = <<>> THEN <<>>
    ELSE (IF Head(s) \in keep THEN <<Head(s)>> ELSE <<" ">>)
         \o ReplaceOutside(Tail(s), keep)

RECURSIVE CollapseSpaces(_)
\* .replace(/\s+/g, ' ')
CollapseSpaces(s) ==
    IF s = <<>> THEN <<>>
    ELSE IF Head(s) \in WhiteSpace
         THEN IF Tail(s) # <<>> /\ Head(Tail(s)) \in WhiteSpace
              THEN CollapseSpaces(Tail(s))
              ELSE <<" ">> \o CollapseSpaces(Tail(s))
         ELSE <<Head(s)>> \o CollapseSpaces(Tail(s))

\* .trim()
Trim(s) ==
    LET noLead == IF s # <<>> /\ Head(s) \in WhiteSpace THEN Tail(s) ELSE s
    IN  IF noLead # <<>> /\ noLead[Len(noLead)] \in WhiteSpace
        THEN DropLast(noLead, 1) ELSE noLead

\* String.prototype.toLowerCase
toLowerCase(text) == [i \in 1..Len(text) |-> ToLowerChar(text[i])]

\* String.prototype.normalize('NFKD')
normalizeNFKD(s) == Flatten([i \in 1..Len(s) |-> NFKDChar(s[i])])

\* cleanText with the whitespace collapsed and trimmed before punctuation
\* and other characters are replaced by spaces
cleanText_CollapseFirst(text) ==
    LET lower    == toLowerCase(text)
        nfkd     == normalizeNFKD(lower)
        noCtl    == MapChars(nfkd, [del |-> ControlChars, sp |-> {}])
        noMarks  == MapChars(noCtl, [del |-> CombiningMarks, sp |-> {}])
        noSym    == MapChars(noMarks, [del |-> EmojiOrSymbol, sp |-> {}])
        noTm     == MapChars(noSym, [del |-> {"TM", "REGISTERED", "COPYRIGHT", "SM", "DBL_EXCL"}, sp |-> {}])
        trimmed  == Trim(CollapseSpaces(noTm))
        noPunct  == MapChars(trimmed, [del |-> {}, sp |-> Punctuation])
    IN  ReplaceOutside(noPunct, LowerLetters \cup Digits \cup CJKChars \cup WhiteSpace)

\* Tokenizer.cleanText
cleanText(text) ==
    LET lower    == toLowerCase(text)
        nfkd     == normalizeNFKD(lower)
        noCtl    == MapChars(nfkd, [del |-> ControlChars, sp |-> {}])
        noMarks  == MapChars(noCtl, [del |-> CombiningMarks, sp |-> {}])
        noSym    == MapChars(noMarks, [del |-> EmojiOrSymbol, sp |-> {}])
        noTm     == MapChars(noSym, [del |-> {"TM", "REGISTERED", "COPYRIGHT", "SM", "DBL_EXCL"}, sp |-> {}])
        noPunct  == MapChars(noTm, [del |-> {}, sp |-> Punctuation])
        kept     == ReplaceOutside(noPunct, LowerLetters \cup Digits \cup CJKChars \cup WhiteSpace)
    IN  Trim(CollapseSpaces(kept))

RECURSIVE SplitAcc(_, _)
\* String.prototype.split(' '): cur is the fragment being read
SplitAcc(s, cur) ==
    IF s = <<>> THEN <<cur>>
    ELSE IF Head(s) = " " THEN <<cur>> \o SplitAcc(Tail(s), <<>>)
         ELSE SplitAcc(Tail(s), Append(cur, Head(s)))

Split(s) == SplitAcc(s, <<>>)

\* ------------------------------------------------------------------------
\* Stemmer
\* ------------------------------------------------------------------------

RECURSIVE isConsonant(_, _)
\* positions are 1-based here, 0-based in the source
isConsonant(word, i) ==
    LET char == word[i]
    IN  IF char \in Vowels THEN FALSE
        ELSE char # "y" \/ (IF i = 1 THEN TRUE ELSE ~isConsonant(word, i - 1))

RECURSIVE measureFrom(_, _, _, _)
measureFrom(word, i, count, inVC) ==
    IF i > Len(word) THEN count
    ELSE IF isConsonant(word, i)
         THEN IF inVC THEN measureFrom(word, i + 1, count + 1, FALSE)
                      ELSE measureFrom(word, i + 1, count, inVC)
         ELSE measureFrom(word, i + 1, count, TRUE)

measure(word) == measureFrom(word, 1, 0, FALSE)

HasVowel(w) == \E i \in 1..Len(w) : w[i] \in Vowels

Step2Suffixes ==
    { <<"a","t","i","o","n","a","l">>, <<"t","i","o","n","a","l">>,
      <<"e","n","c","i">>, <<"a","n","c","i">>, <<"i","z","e","r">>,
      <<"a","b","l","i">>, <<"a","l","l","i">>, <<"e","n","t","l","i">>,
      <<"e","l","i">>, <<"o","u","s","l","i">>,
      <<"i","z","a","t","i","o","n">>, <<"a","t","i","o","n">>,
      <<"a","t","o","r">>, <<"a","l","i","s","m">>,
      <<"i","v","e","n","e","s","s">>, <<"f","u","l","n","e","s","s">>,
      <<"o","u","s","n","e","s","s">>, <<"a","l","i","t","i">>,
      <<"i","v","i","t","i">>, <<"b","i","l","i","t","i">> }

\* Step 1a: /^(.+?)(ss|i)es$/ -> '$1$2', then /(.+?)([^s])s$/ -> '$1$2'
Step1a(word) ==
    LET w1 == IF (EndsWith(word, <<"s","s","e","s">>) /\ Len(word) >= 5)
                 \/ (EndsWith(word, <<"i","e","s">>) /\ Len(word) >= 4)
              THEN DropLast(word, 2) ELSE word
    IN  IF Len(w1) >= 3 /\ w1[Len(w1)] = "s" /\ w1[Len(w1) - 1] # "s"
        THEN DropLast(w1, 1) ELSE w1

\* the cleanup after -ed / -ing has been dropped
Step1bCleanup(w) ==
    IF EndsWith(w, <<"a","t">>) \/ EndsWith(w, <<"b","l">>) \/ EndsWith(w, <<"i","z">>)
    THEN Append(w, "e")
    ELSE IF Len(w) >= 2 /\ w[Len(w)] = w[Len(w) - 1] /\ w[Len(w)] \notin Vowels
    THEN DropLast(w, 1)
    ELSE IF /\ measure(w) = 1
            /\ Len(w) >= 3
            /\ w[Len(w) - 2] \notin Vowels
            /\ w[Len(w) - 1] \in Vowels
            /\ w[Len(w)] \notin (Vowels \cup {"w", "x", "y"})
    THEN Append(w, "e")
    ELSE w

\* Step 1b: -eed, -ed, -ing
Step1b(word) ==
    IF EndsWith(word, <<"e","e","d">>) /\ Len(word) >= 4
    THEN LET stem == DropLast(word, 3)
         IN  IF measure(stem) > 0 THEN stem \o <<"e","e">> ELSE word
    ELSE LET sufLen == IF EndsWith(word, <<"i","n","g">>) /\ Len(word) >= 4 THEN 3
                       ELSE IF EndsWith(word, <<"e","d">>) /\ Len(word) >= 3 THEN 2
                       ELSE 0
         IN  IF sufLen = 0 THEN word
             ELSE LET stem == DropLast(word, sufLen)
                  IN  IF HasVowel(stem) THEN Step1bCleanup(stem) ELSE word

\* Step 2: the lazy (.+?) takes the shortest non-empty stem whose rest is a
\* suffix of the table
Step2(word) ==
    LET ks == { k \in 1..(Len(word) - 1) : SubSeq(word, k + 1, Len(word)) \in Step2Suffixes }
    IN  IF ks = {} THEN word
        ELSE LET k == CHOOSE k \in ks : \A j \in ks : k <= j
                 stem == SubSeq(word, 1, k)
             IN  IF measure(stem) > 0 THEN stem \o <<"a","t","e">> ELSE word

\* Tokenizer.applyDefaultStemmingRules
applyDefaultStemmingRules(word) == Step2(Step1b(Step1a(word)))

RECURSIVE ApplyCustomRules_StrictMeasure(_, _, _)
\* the custom rules with `measure > minMeasure` in place of `>=`
ApplyCustomRules_StrictMeasure(rules, stemmed, customRule) ==
    IF rules = <<>> THEN <<stemmed, customRule>>
    ELSE IF ~EndsWith(stemmed, Head(rules).suffix)
    THEN ApplyCustomRules_StrictMeasure(Tail(rules), stemmed, customRule)
    ELSE IF Head(rules).minMeasure = 0 \/ measure(stemmed) > Head(rules).minMeasure
    THEN ApplyCustomRules_StrictMeasure(Tail(rules),
             DropLast(stemmed, Len(Head(rules).suffix)) \o Head(rules).replacement, TRUE)
    ELSE ApplyCustomRules_StrictMeasure(Tail(rules), stemmed, TRUE)

\* A custom rule [suffix, replacement, minMeasure] stands for the rule
\* { pattern: /^(.*?)<suffix>$/, replacement: '$1<replacement>', minMeasure };
\* minMeasure 0 is "not set" (the source tests !rule.minMeasure).
RECURSIVE ApplyCustomRules(_, _, _)
\* returns <<stemmed, customRule>>
ApplyCustomRules(rules, stemmed, customRule) ==
    IF rules = <<>> THEN <<stemmed, customRule>>
    ELSE LET rule == Head(rules)
         IN  IF EndsWith(stemmed, rule.suffix)
             THEN IF rule.minMeasure = 0 \/ measure(stemmed) >= rule.minMeasure
                  THEN ApplyCustomRules(Tail(rules),
                         DropLast(stemmed, Len(rule.suffix)) \o rule.replacement, TRUE)
                  ELSE ApplyCustomRules(Tail(rules), stemmed, TRUE)
             ELSE ApplyCustomRules(Tail(rules), stemmed, customRule)

\* the default rules applied whether or not a custom rule matched
AfterCustomRules_AlwaysDefault(r) == applyDefaultStemmingRules(r[1])

\* if (customRule) return stemmed; else the default rules are applied
AfterCustomRules(r) == IF r[2] THEN r[1] ELSE applyDefaultStemmingRules(r[1])

\* Tokenizer.stemWord
stemWord(o, word) ==
    IF Len(word) < 3 THEN word
    ELSE AfterCustomRules(ApplyCustomRules(o.stemmingRules, word, FALSE))

\* ------------------------------------------------------------------------
\* Tokenizer
\* ------------------------------------------------------------------------

\* /^\d+$/
isNumeric(token) == token # <<>> /\ \A i \in 1..Len(token) : token[i] \in Digits

\* Tokenizer.isValidToken
isValidToken(o, token) ==
    /\ (Len(token) >= o.minLength \/ isNumeric(token))
    /\ token \notin o.stopWords

\* tokenize throws 'Input text cannot be null or empty' on !text
TokenizeThrows(text) == text = <<>>

\* .map((token) => (this.stemming ? this.stemWord(token) : token))
StemTokens(o, tokens) ==
    IF o.stemming
    THEN [i \in 1..Len(tokens) |-> stemWord(o, tokens[i])]
    ELSE tokens

\* Tokenizer.tokenize, the tokens of a text on which it does not throw
\* (the statistics it can also return are not part of the index)
Tokenize(o, text) ==
    StemTokens(o, SelectSeq(Split(cleanText(text)), LAMBDA t : isValidToken(o, t)))

\* ------------------------------------------------------------------------
\* Values of the index
\* ------------------------------------------------------------------------

\* Field boosts are JavaScript numbers and need not be integers.  A boost,
\* and every quantity a boost is multiplied into (a document length before it
\* is stored, a term frequency), is held as a count of 1 / BoostUnit:
\* fieldBoosts[f] = 3 is the boost 1.5.
BoostUnit == 2

\* The value a Uint32Array slot takes when the number n / d is stored into it:
\* the fraction is dropped.  Every number of the model is non-negative and
\* below 2^31, where the reduction modulo 2^32 changes nothing.
ToUint32(n, d) == n \div d

\* A JavaScript number n / d for integers n, d >= 0, as a reduced fraction;
\* 0 / 0 is NaN and n / 0 is Infinity.
Ratio(n, d) ==
    IF d = 0 THEN (IF n = 0 THEN <<0, 0>> ELSE <<1, 0>>)
    ELSE LET g == Gcd(n, d) IN <<n \div g, d \div g>>

\* Map.prototype.set on a map held as a function
Put(m, k, v) == [x \in (DOMAIN m) \cup {k} |-> IF x = k THEN v ELSE m[x]]

\* the entries of a Map with integer keys, in increasing key order
RECURSIVE EntriesOf(_)
EntriesOf(m) ==
    IF DOMAIN m = {} THEN <<>>
    ELSE LET k == CHOOSE k \in DOMAIN m : \A j \in DOMAIN m : k <= j
         IN  <<<<k, m[k]>>>> \o EntriesOf([x \in (DOMAIN m) \ {k} |-> m[x]])

\* new Set(tokens), in insertion order
RECURSIVE Unique(_)
Unique(tokens) ==
    IF tokens = <<>> THEN <<>>
    ELSE LET rest == Unique(DropLast(tokens, 1))
             last == tokens[Len(tokens)]
         IN  IF \E i \in 1..Len(rest) : rest[i] = last THEN rest ELSE Append(rest, last)

\* tokens.filter((t) => t === term).length
Count(tokens, term) == Cardinality({ i \in 1..Len(tokens) : tokens[i] = term })

Zeros(n) == [i \in 1..n |-> 0]

\* A document: [absent, entries]; absent stands for null / undefined, entries
\* is Object.entries(doc), a sequence of <<field, text>>.
Absent == [absent |-> TRUE, entries |-> <<>>]
Doc(entries) == [absent |-> FALSE, entries |-> entries]

\* this.fieldBoosts[field] || 1
FieldBoost(o, field) ==
    IF field \in DOMAIN o.fieldBoosts /\ o.fieldBoosts[field] # 0
    THEN o.fieldBoosts[field] ELSE BoostUnit

\* Object.entries(doc) of null throws; tokenize throws on an empty text
DocThrows(doc) ==
    doc.absent \/ \E i \in 1..Len(doc.entries) : TokenizeThrows(doc.entries[i][2])

\* the fields of the constructor before any document is processed
EmptyIndex ==
    [ documents         |-> <<>>,
      documentLengths   |-> <<>>,
      termToIndex       |-> <<>>,
      documentFrequency |-> <<>>,
      averageDocLength  |-> Ratio(0, 1),
      termFrequencies   |-> <<>> ]

\* ------------------------------------------------------------------------
\* BM25.processDocuments (the constructor's bulk build)
\* ------------------------------------------------------------------------

RECURSIVE PD_Terms(_, _, _, _, _)
PD_Terms(acc, docIndex, terms, tokens, fieldBoost) ==
    IF terms = <<>> THEN acc
    ELSE LET term      == Head(terms)
             isNew     == term \notin DOMAIN acc.termToIndex
             tti       == IF isNew THEN Put(acc.termToIndex, term, acc.nextTermIndex)
                          ELSE acc.termToIndex
             termIndex == tti[term]
             seen      == IF term \in DOMAIN acc.termDocs THEN acc.termDocs[term] ELSE {}
             old       == IF termIndex \in DOMAIN acc.termFrequencies
                          THEN acc.termFrequencies[termIndex] ELSE <<>>
             freq      == Count(tokens, term) * fieldBoost
             existingFreq == IF docIndex \in DOMAIN old THEN old[docIndex] ELSE 0
         IN  PD_Terms([acc EXCEPT
                          !.termToIndex = tti,
                          !.nextTermIndex = IF isNew THEN @ + 1 ELSE @,
                          !.termDocs = Put(@, term, seen \cup {docIndex}),
                          !.termFrequencies =
                              Put(@, termIndex, Put(old, docIndex, existingFreq + freq))],
                      docIndex, Tail(terms), tokens, fieldBoost)

\* one field of one document, tokenized to tokens
PD_Field(acc, docIndex, tokens, fieldBoost) ==
    PD_Terms([acc EXCEPT !.docLength = @ + Len(tokens) * fieldBoost],
             docIndex, Unique(tokens), tokens, fieldBoost)

RECURSIVE PD_Fields(_, _, _, _)
PD_Fields(o, acc, docIndex, entries) ==
    IF entries = <<>> THEN acc
    ELSE PD_Fields(o, PD_Field(acc, docIndex, Tokenize(o, Head(entries)[2]),
                               FieldBoost(o, Head(entries)[1])),
                   docIndex, Tail(entries))

\* documentLengths[docIndex] = docLength; totalLength += docLength
PD_EndDoc(a) ==
    [a EXCEPT !.documentLengths = Append(@, ToUint32(a.docLength, BoostUnit)),
              !.totalLength = @ + a.docLength]

RECURSIVE PD_Docs(_, _, _, _)
PD_Docs(o, acc, docs, docIndex) ==
    IF docIndex >= Len(docs) THEN acc
    ELSE PD_Docs(o, PD_EndDoc(PD_Fields(o, [acc EXCEPT !.docLength = 0], docIndex,
                                        docs[docIndex + 1].entries)),
                 docs, docIndex + 1)

\* documentFrequency[termIndex] = docs.size for every term of termDocs
DFFromTermDocs(tti, termDocs) ==
    [ i \in 1..Cardinality(DOMAIN tti) |->
        LET ts == { t \in DOMAIN tti : tti[t] = i - 1 }
        IN  IF ts = {} THEN 0 ELSE ToUint32(Cardinality(termDocs[CHOOSE t \in ts : TRUE]), 1) ]

\* the return value of processDocuments
PD_Return(acc, docs) ==
    [ documentLengths   |-> acc.documentLengths,
      termToIndex       |-> acc.termToIndex,
      documentFrequency |-> DFFromTermDocs(acc.termToIndex, acc.termDocs),
      averageDocLength  |-> Ratio(acc.totalLength, BoostUnit * Len(docs)),
      termFrequencies   |-> acc.termFrequencies ]

processDocuments(o, docs) ==
    PD_Return(PD_Docs(o, [ documentLengths |-> <<>>, termToIndex |-> <<>>,
                           termDocs |-> <<>>, termFrequencies |-> <<>>,
                           totalLength |-> 0, nextTermIndex |-> 0, docLength |-> 0 ],
                      docs, 0),
              docs)

\* the constructor throws when processDocuments does
ConstructorThrows(docs) == \E i \in 1..Len(docs) : DocThrows(docs[i])

\* the fields the constructor assigns from processDocuments' return value
AssignProcessed(docs, r) ==
    [ documents         |-> docs,
      documentLengths   |-> r.documentLengths,
      termToIndex       |-> r.termToIndex,
      documentFrequency |-> r.documentFrequency,
      averageDocLength  |-> r.averageDocLength,
      termFrequencies   |-> r.termFrequencies ]

\* new BM25(docs, options), for docs on which it does not throw
Constructor(o, docs) ==
    IF Len(docs) > 0 THEN AssignProcessed(docs, processDocuments(o, docs))
    ELSE EmptyIndex

\* ------------------------------------------------------------------------
\* BM25.addDocument, BM25.addDocuments
\* ------------------------------------------------------------------------

\* if (this.documentFrequency.length <= termIndex): a new array of twice the
\* length (0 stays 0); the ++ on an index outside the array is dropped
GrowDocumentFrequency(df, termIndex) ==
    IF Len(df) <= termIndex THEN df \o Zeros(Len(df)) ELSE df

IncrementAt(df, termIndex) ==
    IF termIndex < Len(df) THEN [df EXCEPT ![termIndex + 1] = ToUint32(@ + 1, 1)] ELSE df

RECURSIVE AD_Terms(_, _, _, _)
AD_Terms(ix, docIndex, terms, tokens) ==
    IF terms = <<>> THEN ix
    ELSE LET term      == Head(terms)
             tti       == IF term \notin DOMAIN ix.termToIndex
                          THEN Put(ix.termToIndex, term, Cardinality(DOMAIN ix.termToIndex))
                          ELSE ix.termToIndex
             termIndex == tti[term]
             old       == IF termIndex \in DOMAIN ix.termFrequencies
                          THEN ix.termFrequencies[termIndex] ELSE <<>>
             freq      == Count(tokens, term) * BoostUnit
         IN  AD_Terms([ix EXCEPT
                          !.termToIndex = tti,
                          !.documentFrequency =
                              IncrementAt(GrowDocumentFrequency(@, termIndex), termIndex),
                          !.termFrequencies = Put(@, termIndex, Put(old, docIndex, freq))],
                      docIndex, Tail(terms), tokens)

RECURSIVE AD_Fields(_, _, _, _, _)

\* the first field of entries, tokenized to tokens, then the fields after it
AD_Field(o, ix, docIndex, entries, docLength, tokens) ==
    AD_Fields(o, AD_Terms(ix, docIndex, Unique(tokens), tokens), docIndex,
              Tail(entries),
              docLength + Len(tokens) * FieldBoost(o, Head(entries)[1]))

\* [ix, docLength, err]: stops at the first field whose tokenize throws
AD_Fields(o, ix, docIndex, entries, docLength) ==
    IF entries = <<>> THEN [ix |-> ix, docLength |-> docLength, err |-> "none"]
    ELSE IF TokenizeThrows(Head(entries)[2])
    THEN [ix |-> ix, docLength |-> docLength, err |-> "InvalidInput"]
    ELSE AD_Field(o, ix, docIndex, entries, docLength, Tokenize(o, Head(entries)[2]))

\* this.documentLengths = newDocLengths and the average over it
AD_Lengths(ix, newDocLengths) ==
    [ix EXCEPT !.documentLengths = newDocLengths,
               !.averageDocLength = Ratio(SumSeq(newDocLengths), Len(newDocLengths))]

\* after the field loop has ended as r: nothing more when a field threw
AD_End(r) ==
    IF r.err # "none" THEN [ix |-> r.ix, err |-> r.err]
    ELSE [ix  |-> AD_Lengths(r.ix, Append(r.ix.documentLengths, ToUint32(r.docLength, BoostUnit))),
          err |-> "none"]

\* addDocument with the document pushed before it is tested for null
addDocument_PushBeforeCheck(o, ix, doc) ==
    IF doc.absent
    THEN [ix |-> [ix EXCEPT !.documents = Append(@, doc)], err |-> "NullDocument"]
    ELSE AD_End(AD_Fields(o, [ix EXCEPT !.documents = Append(@, doc)],
                          Len(ix.documentLengths), doc.entries, 0))

\* addDocument: [ix, err], the index after the call and the error it
\* rejects with ("none": it resolves)
addDocument(o, ix, doc) ==
    IF doc.absent THEN [ix |-> ix, err |-> "NullDocument"]
    ELSE AD_End(AD_Fields(o, [ix EXCEPT !.documents = Append(@, doc)],
                          Len(ix.documentLengths), doc.entries, 0))

RECURSIVE addDocuments(_, _, _)
\* docs.forEach((doc) => this.addDocument(doc)): the promises are dropped
addDocuments(o, ix, docs) ==
    IF docs = <<>> THEN ix
    ELSE addDocuments(o, addDocument(o, ix, Head(docs)).ix, Tail(docs))

\* ------------------------------------------------------------------------
\* worker.ts: processDocuments in a worker thread
\* ------------------------------------------------------------------------

\* minLength of Tokenizer.DEFAULT_OPTIONS
DefaultMinLength == 2

\* new Tokenizer(options) in the worker: the message carries
\* options: { fieldBoosts } only, the rest are Tokenizer.DEFAULT_OPTIONS
WorkerOptions(fieldBoosts) ==
    [ stopWords     |-> {},
      minLength     |-> DefaultMinLength,
      stemming      |-> FALSE,
      stemmingRules |-> <<>>,
      fieldBoosts   |-> fieldBoosts ]

RECURSIVE W_Terms(_, _, _, _)
W_Terms(acc, docIndex, terms, tokens) ==
    IF terms = <<>> THEN acc
    ELSE LET term      == Head(terms)
             isNew     == term \notin DOMAIN acc.termToIndex
             tti       == IF isNew THEN Put(acc.termToIndex, term, acc.nextTermIndex)
                          ELSE acc.termToIndex
             termIndex == tti[term]
             old       == IF termIndex \in DOMAIN acc.termFrequencies
                          THEN acc.termFrequencies[termIndex] ELSE <<>>
             freq      == Count(tokens, term) * BoostUnit
         IN  W_Terms([acc EXCEPT
                         !.termToIndex = tti,
                         !.termOrder = IF isNew THEN Append(@, term) ELSE @,
                         !.nextTermIndex = IF isNew THEN @ + 1 ELSE @,
                         !.termFrequencies = Put(@, termIndex, Put(old, docIndex, freq))],
                     docIndex, Tail(terms), tokens)

\* one field of one document, tokenized to tokens
W_Field(acc, docIndex, tokens, fieldBoost) ==
    W_Terms([acc EXCEPT !.docLength = @ + Len(tokens) * fieldBoost],
            docIndex, Unique(tokens), tokens)

RECURSIVE W_Fields(_, _, _, _)
W_Fields(o, acc, docIndex, entries) ==
    IF entries = <<>> THEN acc
    ELSE W_Fields(o, W_Field(acc, docIndex, Tokenize(o, Head(entries)[2]),
                             FieldBoost(o, Head(entries)[1])),
                  docIndex, Tail(entries))

\* documentLengths[docIndex] = docLength
W_EndDoc(a) == [a EXCEPT !.documentLengths = Append(@, ToUint32(a.docLength, BoostUnit))]

RECURSIVE W_Docs(_, _, _, _)
W_Docs(o, acc, docs, docIndex) ==
    IF docIndex >= Len(docs) THEN acc
    ELSE W_Docs(o, W_EndDoc(W_Fields(o, [acc EXCEPT !.docLength = 0], docIndex,
                                     docs[docIndex + 1].entries)),
                docs, docIndex + 1)

\* the worker's message handler throws (an 'error' event on the Worker)
WorkerThrows(docs) == \E i \in 1..Len(docs) : DocThrows(docs[i])

\* The SerializableResult the worker posts: termToIndex is the list of
\* [term, index] entries in insertion order, termFrequencies the list of
\* [termIndex, [[docIdx, freq], ...]] entries.  Its documentFrequency and
\* averageDocLength are never read by the receiver and are left out.
W_Serialize(acc, docs) ==
    [ documentLengths |-> acc.documentLengths,
      termToIndex     |-> [ i \in 1..Len(acc.termOrder) |->
                              <<acc.termOrder[i], acc.termToIndex[acc.termOrder[i]]>> ],
      termFrequencies |-> [ i \in 1..Len(acc.termOrder) |->
                              LET t == acc.termToIndex[acc.termOrder[i]]
                              IN  <<t, EntriesOf(acc.termFrequencies[t])>> ],
      documentCount   |-> Len(docs) ]

\* what the worker posts for the slice docs
WorkerResult(fieldBoosts, docs) ==
    W_Serialize(W_Docs(WorkerOptions(fieldBoosts),
                       [ documentLengths |-> <<>>, termToIndex |-> <<>>,
                         termOrder |-> <<>>, termFrequencies |-> <<>>,
                         nextTermIndex |-> 0, docLength |-> 0 ],
                       docs, 0),
                docs)

\* ------------------------------------------------------------------------
\* BM25.addDocumentsParallel
\* ------------------------------------------------------------------------

CeilDiv(a, b) == (a + b - 1) \div b

\* Math.ceil(require('os').cpus().length / 2) || 2
NumWorkers(cpus) == IF CeilDiv(cpus, 2) = 0 THEN 2 ELSE CeilDiv(cpus, 2)

Min(a, b) == IF a < b THEN a ELSE b

\* the slice of worker i with batchSize rounded down: Math.floor in the
\* place of Math.ceil
SliceOf_FloorBatch(docs, numWorkers, i) ==
    LET batchSize == Len(docs) \div numWorkers
        start     == i * batchSize
        end       == Min(start + batchSize, Len(docs))
    IN  IF start >= end THEN <<>> ELSE SubSeq(docs, start + 1, end)

\* docs.slice(start, end) for the worker i (0-based)
SliceOf(docs, numWorkers, i) ==
    LET batchSize == CeilDiv(Len(docs), numWorkers)
        start     == i * batchSize
        end       == Min(start + batchSize, Len(docs))
    IN  IF start >= end THEN <<>> ELSE SubSeq(docs, start + 1, end)

Slices(docs, numWorkers) == [ i \in 1..numWorkers |-> SliceOf(docs, numWorkers, i - 1) ]

\* a write to a typed array outside its length is dropped
SetAt(arr, i, v) == IF i < Len(arr) THEN [arr EXCEPT ![i + 1] = ToUint32(v, 1)] ELSE arr

RECURSIVE MergeLengths(_, _, _, _)
MergeLengths(lengths, resultLengths, offset, i) ==
    IF i >= Len(resultLengths) THEN lengths
    ELSE MergeLengths(SetAt(lengths, offset + i, resultLengths[i + 1]),
                      resultLengths, offset, i + 1)

\* new Map(pairs.map(([docIdx, freq]) => [docIdx + offset, freq])): the last
\* pair of a key wins
MapOfPairs(pairs, offset) ==
    [ d \in { pairs[i][1] + offset : i \in 1..Len(pairs) } |->
        LET i == CHOOSE i \in 1..Len(pairs) :
                    /\ pairs[i][1] + offset = d
                    /\ \A j \in (i + 1)..Len(pairs) : pairs[j][1] + offset # d
        IN  pairs[i][2] ]

\* .flatMap(([_, docFreqs]) => docFreqs)
FlatMapFreqs(hits) == Flatten([ i \in 1..Len(hits) |-> hits[i][2] ])

\* new Map(result.termFrequencies.filter(([tIndex]) => tIndex === index)
\*           .flatMap(([_, docFreqs]) => docFreqs)
\*           .map(([docIdx, freq]) => [docIdx + offset, freq]))
FreqMap(result, index, offset) ==
    MapOfPairs(FlatMapFreqs(SelectSeq(result.termFrequencies, LAMBDA e : e[1] = index)),
               offset)

\* freqMap.forEach((freq, docIdx) => map.set(docIdx, freq))
SetAll(m, freqMap) ==
    [ d \in (DOMAIN m) \cup (DOMAIN freqMap) |->
        IF d \in DOMAIN freqMap THEN freqMap[d] ELSE m[d] ]

\* if (!this.termFrequencies.has(newIndex)) set(newIndex, freqMap)
\* else every entry of freqMap is set into the existing map
MergeFreqMap(tf, newIndex, freqMap) ==
    IF newIndex \notin DOMAIN tf
    THEN Put(tf, newIndex, freqMap)
    ELSE Put(tf, newIndex, SetAll(tf[newIndex], freqMap))

RECURSIVE MergeTerms(_, _, _, _)
MergeTerms(ix, result, entries, offset) ==
    IF entries = <<>> THEN ix
    ELSE LET term     == Head(entries)[1]
             index    == Head(entries)[2]
             tti      == IF term \notin DOMAIN ix.termToIndex
                         THEN Put(ix.termToIndex, term, Cardinality(DOMAIN ix.termToIndex))
                         ELSE ix.termToIndex
             newIndex == tti[term]
         IN  MergeTerms([ix EXCEPT !.termToIndex = tti,
                                   !.termFrequencies =
                                       MergeFreqMap(@, newIndex,
                                                    FreqMap(result, index, offset))],
                        result, Tail(entries), offset)

RECURSIVE MergeResults(_, _, _)
MergeResults(ix, results, offset) ==
    IF results = <<>> THEN ix
    ELSE LET result == Head(results)
             ix1 == [ix EXCEPT !.documentLengths =
                        MergeLengths(@, result.documentLengths, offset, 0)]
         IN  MergeResults(MergeTerms(ix1, result, result.termToIndex, offset),
                          Tail(results), offset + result.documentCount)

\* BM25.updateDocumentFrequency
updateDocumentFrequency(tti, tf) ==
    [ i \in 1..Cardinality(DOMAIN tti) |->
        IF (i - 1) \in DOMAIN tf THEN ToUint32(Cardinality(DOMAIN tf[i - 1]), 1) ELSE 0 ]

\* BM25.recalculateAverageLength
recalculateAverageLength(lengths) == Ratio(SumSeq(lengths), Len(lengths))

\* this.updateDocumentFrequency(); this.recalculateAverageLength()
AfterMerge(ix) ==
    [ix EXCEPT
        !.documentFrequency = updateDocumentFrequency(ix.termToIndex, ix.termFrequencies),
        !.averageDocLength  = recalculateAverageLength(ix.documentLengths)]

\* addDocumentsParallel after `await Promise.all(workerPromises)` has
\* resolved with results: the merge into this index
MergeParallel(ix, docs, results) ==
    AfterMerge(MergeResults([ix EXCEPT !.documentLengths = @ \o Zeros(Len(docs)),
                                       !.documents = @ \o docs],
                            results, Len(ix.documents)))

\* ------------------------------------------------------------------------
\* BM25.search
\* ------------------------------------------------------------------------

\* Scores are kept in fixed point: a number is [nan, v] with v in thousandths.
NaN == [nan |-> TRUE, v |-> 0]
Num(v) == [nan |-> FALSE, v |-> v]
Plus(a, b) == IF a.nan \/ b.nan THEN NaN ELSE Num(a.v + b.v)

\* k1 = 1.5 in halves and b = 0.75 in quarters: the defaults of
\* DEFAULT_OPTIONS that the constructor reads when the options set neither
K1x2 == 3
Bx4 == 3

\* Math.log(n) for the integers 1..48, in thousandths
LnMilli ==
    << 0, 693, 1099, 1386, 1609, 1792, 1946, 2079, 2197, 2303, 2398, 2485,
       2565, 2639, 2708, 2773, 2833, 2890, 2944, 2996, 3045, 3091, 3135, 3178,
       3219, 3258, 3296, 3332, 3367, 3401, 3434, 3466, 3497, 3526, 3555, 3584,
       3611, 3638, 3664, 3689, 3714, 3738, 3761, 3784, 3807, 3829, 3850, 3871 >>

\* calculateIDF with the "+ 1" inside the logarithm left out:
\* log((N - df + 0.5) / (df + 0.5)) = log((2(N - df) + 1) / (2df + 1))
calculateIDF_NoPlusOne(ix, termIndex) ==
    IF termIndex >= Len(ix.documentFrequency) THEN NaN
    ELSE IF ix.documentFrequency[termIndex + 1] = 0 THEN Num(0)
    ELSE IF ix.documentFrequency[termIndex + 1] > Len(ix.documentLengths) THEN NaN
    ELSE Num(LnMilli[2 * (Len(ix.documentLengths) - ix.documentFrequency[termIndex + 1]) + 1]
             - LnMilli[2 * ix.documentFrequency[termIndex + 1] + 1])

\* BM25.calculateIDF, in thousandths:
\* log((N - df + 0.5) / (df + 0.5) + 1) = log((2N + 2) / (2df + 1));
\* documentFrequency[termIndex] outside the array is undefined and gives NaN
calculateIDF(ix, termIndex) ==
    IF termIndex >= Len(ix.documentFrequency) THEN NaN
    ELSE LET docFreq == ix.documentFrequency[termIndex + 1]
             N       == Len(ix.documentLengths)
         IN  IF docFreq = 0 THEN Num(0)
             ELSE Num(LnMilli[2 * N + 2] - LnMilli[2 * docFreq + 1])

\* idf * normalizedTF in thousandths (rounded down), where
\* normalizedTF = tf (k1 + 1) / (tf + k1 (1 - b + b docLength / averageDocLength))
\*              = 4 h (K + 2) an / (8 h an + U K ((4 - B) an + B docLength ad))
\* for k1 = K / 2, b = B / 4, averageDocLength = an / ad and tf = h / U, where
\* U is BoostUnit
TermScore(idf, tf, docLength, avg) ==
    LET an  == avg[1]
        ad  == avg[2]
        num == 4 * tf * (K1x2 + 2) * an
        den == 8 * tf * an + BoostUnit * K1x2 * ((4 - Bx4) * an + Bx4 * docLength * ad)
    IN  IF idf.nan \/ ad = 0 \/ den = 0 THEN NaN
        ELSE Num((idf.v * num) \div den)

RECURSIVE ScoreDocs(_, _, _, _, _)
\* termFreqs.forEach((tf, docIndex) => scores[docIndex] += idf * normalizedTF);
\* scores is a Float32Array of documentLengths.length slots: a write outside
\* it is dropped
ScoreDocs(ix, scores, idf, termFreqs, ds) ==
    IF ds = {} THEN scores
    ELSE LET docIndex == CHOOSE d \in ds : TRUE
             s == IF docIndex < Len(scores)
                  THEN [scores EXCEPT ![docIndex + 1] =
                           Plus(@, TermScore(idf, termFreqs[docIndex],
                                             ix.documentLengths[docIndex + 1],
                                             ix.averageDocLength))]
                  ELSE scores
         IN  ScoreDocs(ix, s, idf, termFreqs, ds \ {docIndex})

RECURSIVE ScoreTokens(_, _, _)
ScoreTokens(ix, scores, queryTokens) ==
    IF queryTokens = <<>> THEN scores
    ELSE LET term == Head(queryTokens)
         IN  IF term \notin DOMAIN ix.termToIndex
             THEN ScoreTokens(ix, scores, Tail(queryTokens))
             ELSE LET termIndex == ix.termToIndex[term]
                      termFreqs == ix.termFrequencies[termIndex]
                  IN  ScoreTokens(ix,
                          ScoreDocs(ix, scores, calculateIDF(ix, termIndex),
                                    termFreqs, DOMAIN termFreqs),
                          Tail(queryTokens))

RECURSIVE InsertDesc(_, _)
\* the place of r in a list sorted by (b.score - a.score), after its equals
InsertDesc(sorted, r) ==
    IF sorted = <<>> THEN <<r>>
    ELSE IF Head(sorted).score >= r.score
         THEN <<Head(sorted)>> \o InsertDesc(Tail(sorted), r)
         ELSE <<r>> \o sorted

RECURSIVE SortDesc(_)
\* Array.prototype.sort((a, b) => b.score - a.score), a stable sort
SortDesc(rs) ==
    IF rs = <<>> THEN <<>>
    ELSE InsertDesc(SortDesc(DropLast(rs, 1)), rs[Len(rs)])

\* search throws when tokenize(query) does
SearchThrows(query) == TokenizeThrows(query)

\* Array.from({ length: scores.length }, (_, i) => ({ index: i, score: scores[i] }))
ScoredDocs(scores) == [ i \in 1..Len(scores) |-> [index |-> i - 1, score |-> scores[i]] ]

\* the filter left out: every document is kept, whatever its score
PositiveScores_All(all) ==
    SelectSeq(all, LAMBDA r : ~r.score.nan)

\* .filter((result) => result.score > 0): NaN > 0 is false
PositiveScores(all) ==
    SelectSeq(all, LAMBDA r : ~r.score.nan /\ r.score.v > 0)

ScoreValues(pos) ==
    [ i \in 1..Len(pos) |-> [index |-> pos[i].index, score |-> pos[i].score.v] ]

\* .slice(0, topK)
SliceTopK(sorted, topK) == SubSeq(sorted, 1, Min(topK, Len(sorted)))

\* BM25.search, for a query on which it does not throw
search(o, ix, query, topK) ==
    SliceTopK(
        SortDesc(ScoreValues(PositiveScores(ScoredDocs(
            ScoreTokens(ix, [ i \in 1..Len(ix.documentLengths) |-> Num(0) ],
                        Tokenize(o, query)))))),
        topK)

\* topK: number = 10
DefaultTopK == 10

\* ------------------------------------------------------------------------
\* BM25.searchPhrase
\* ------------------------------------------------------------------------

\* candidateDocs after one more known term: filled from the term's documents
\* while it is empty, narrowed to them otherwise
NarrowCandidates(cand, docs) == IF cand = {} THEN docs ELSE cand \cap docs

RECURSIVE CandidateDocs(_, _, _)
\* phraseTokens.forEach((term) => ...) over the known terms of the phrase
CandidateDocs(ix, cand, phraseTokens) ==
    IF phraseTokens = <<>> THEN cand
    ELSE IF Head(phraseTokens) \notin DOMAIN ix.termToIndex
    THEN CandidateDocs(ix, cand, Tail(phraseTokens))
    ELSE CandidateDocs(ix,
             NarrowCandidates(cand,
                 DOMAIN ix.termFrequencies[ix.termToIndex[Head(phraseTokens)]]),
             Tail(phraseTokens))

\* this.termFrequencies.get(termIndex)!.get(docIndex) || 0
GetOrZero(termFreqs, docIndex) ==
    IF docIndex \in DOMAIN termFreqs THEN termFreqs[docIndex] ELSE 0

\* idf * normalizedTF of one phrase term in one document; a document length
\* read outside documentLengths is undefined and gives NaN
PhraseTermScore(ix, termIndex, docIndex) ==
    IF docIndex >= Len(ix.documentLengths) THEN NaN
    ELSE TermScore(calculateIDF(ix, termIndex),
                   GetOrZero(ix.termFrequencies[termIndex], docIndex),
                   ix.documentLengths[docIndex + 1], ix.averageDocLength)

RECURSIVE calculatePhraseScore(_, _, _)
\* BM25.calculatePhraseScore: unknown terms add nothing
calculatePhraseScore(ix, phraseTokens, docIndex) ==
    IF phraseTokens = <<>> THEN Num(0)
    ELSE IF phraseTokens[Len(phraseTokens)] \notin DOMAIN ix.termToIndex
    THEN calculatePhraseScore(ix, DropLast(phraseTokens, 1), docIndex)
    ELSE Plus(calculatePhraseScore(ix, DropLast(phraseTokens, 1), docIndex),
              PhraseTermScore(ix, ix.termToIndex[phraseTokens[Len(phraseTokens)]],
                              docIndex))

\* phraseTokens.every((token, j) => token === docTokens[i + j]) for some
\* 0 <= i <= docTokens.length - phraseTokens.length
HasPhrase(docTokens, phraseTokens) ==
    \E i \in 1..(Len(docTokens) - Len(phraseTokens) + 1) :
        \A j \in 1..Len(phraseTokens) : docTokens[i + j - 1] = phraseTokens[j]

\* score * fieldBoost, the boost in units of 1/BoostUnit: phrase scores are
\* in units of 1/(1000 * BoostUnit)
Times(a, boost) == IF a.nan THEN NaN ELSE Num(a.v * boost)

\* (scores.get(docIndex) || 0) + score: a stored NaN or 0 reads as 0
OrZeroPlus(prev, score) == IF prev.nan THEN score ELSE Plus(prev, score)

RECURSIVE PhraseFields(_, _, _, _, _, _)
\* Object.entries(doc).forEach: [set, score], set when some field matched
PhraseFields(o, ix, phraseTokens, docIndex, entries, acc) ==
    IF entries = <<>> THEN acc
    ELSE IF HasPhrase(Tokenize(o, Head(entries)[2]), phraseTokens)
    THEN PhraseFields(o, ix, phraseTokens, docIndex, Tail(entries),
             [set |-> TRUE,
              score |-> OrZeroPlus(acc.score,
                            Times(calculatePhraseScore(ix, phraseTokens, docIndex),
                                  FieldBoost(o, Head(entries)[1])))])
    ELSE PhraseFields(o, ix, phraseTokens, docIndex, Tail(entries), acc)

\* the entry of the scores map for one candidate, <<>> when no field matched
PhraseEntry(docIndex, r) ==
    IF r.set THEN << [index |-> docIndex, score |-> r.score] >> ELSE <<>>

RECURSIVE PhraseScores(_, _, _, _)
\* candidateDocs.forEach, in the order of the set: the documents of a term
\* are stored in ascending order of their index
PhraseScores(o, ix, phraseTokens, cand) ==
    IF cand = {} THEN <<>>
    ELSE PhraseEntry(CHOOSE d \in cand : \A e \in cand : d <= e,
             PhraseFields(o, ix, phraseTokens,
                 CHOOSE d \in cand : \A e \in cand : d <= e,
                 ix.documents[(CHOOSE d \in cand : \A e \in cand : d <= e) + 1].entries,
                 [set |-> FALSE, score |-> Num(0)]))
         \o PhraseScores(o, ix, phraseTokens,
                cand \ {CHOOSE d \in cand : \A e \in cand : d <= e})

\* b.score - a.score > 0; a NaN difference is read as 0
ScoreBelow(a, b) == ~a.nan /\ ~b.nan /\ a.v < b.v

RECURSIVE InsertPhrase(_, _)
InsertPhrase(sorted, r) ==
    IF sorted = <<>> THEN <<r>>
    ELSE IF ScoreBelow(Head(sorted).score, r.score)
         THEN <<r>> \o sorted
         ELSE <<Head(sorted)>> \o InsertPhrase(Tail(sorted), r)

RECURSIVE SortPhrase(_)
\* .sort((a, b) => b.score - a.score) on scores that may be NaN
SortPhrase(rs) ==
    IF rs = <<>> THEN <<>>
    ELSE InsertPhrase(SortPhrase(DropLast(rs, 1)), rs[Len(rs)])

\* the error searchPhrase throws, "none" when it returns: tokenize(phrase)
\* throws on an empty phrase, getDocument on an index outside documents,
\* tokenize(content) on a stored document with an empty field
SearchPhraseError(o, ix, phrase) ==
    IF TokenizeThrows(phrase) THEN "InvalidInput"
    ELSE IF \E d \in CandidateDocs(ix, {}, Tokenize(o, phrase)) :
                d >= Len(ix.documents)
    THEN "OutOfBounds"
    ELSE IF \E d \in CandidateDocs(ix, {}, Tokenize(o, phrase)) :
                DocThrows(ix.documents[d + 1])
    THEN "InvalidInput"
    ELSE "none"

\* searchPhrase with every document a candidate when the phrase has no
\* token
searchPhrase_AllWhenNoTokens(o, ix, phrase, topK) ==
    SliceTopK(SortPhrase(PhraseScores(o, ix, Tokenize(o, phrase),
                             IF Tokenize(o, phrase) = <<>>
                             THEN 0..(Len(ix.documents) - 1)
                             ELSE CandidateDocs(ix, {}, Tokenize(o, phrase)))),
              topK)

\* BM25.searchPhrase, for a phrase on which it does not throw
searchPhrase(o, ix, phrase, topK) ==
    SliceTopK(SortPhrase(PhraseScores(o, ix, Tokenize(o, phrase),
                             CandidateDocs(ix, {}, Tokenize(o, phrase)))),
              topK)

\* ------------------------------------------------------------------------
\* Bounds and inputs
\* ------------------------------------------------------------------------

\* the most documents the documents array holds
MaxDocs == 2
\* the longest batch and the most CPUs for which the slicing is examined
MaxBatch == 5
MaxCpus == 8
\* the most addDocumentsParallel calls awaiting their workers at once
MaxCalls == 1

T_cat == <<"c","a","t">>
T_dog == <<"d","o","g">>
T_the == <<"t","h","e">>
T_mis == <<"m","i","s">>

Text_cat         == T_cat
Text_The_cat     == <<"T","h","e"," ">> \o T_cat
Text_cat_dog_cat == T_cat \o <<" ">> \o T_dog \o <<" ">> \o T_cat
Text_dog         == T_dog
Text_Missed      == <<"M","i","s","s","e","d","!">>
Text_punct       == <<"!">>
Text_empty       == <<>>

D_cat    == Doc(<< <<"title", Text_cat>> >>)
D_two    == Doc(<< <<"title", Text_The_cat>>, <<"content", Text_cat_dog_cat>> >>)
D_bad    == Doc(<< <<"title", Text_dog>>, <<"content", Text_empty>> >>)
D_missed == Doc(<< <<"content", Text_Missed>> >>)
D_punct  == Doc(<< <<"content", Text_punct>> >>)

\* the documents handed to addDocument
DocPool == {D_cat, D_two, D_bad, Absent}

\* the lists handed to the constructor
InitLists == { <<>>, <<D_cat>>, <<D_two>>, <<D_missed>>, <<D_punct>>, <<D_cat, D_two>> }

\* the lists handed to addDocuments
AddLists == { <<D_cat, D_two>>, <<D_two, D_bad>> }

\* the lists handed to addDocumentsParallel
ParallelLists == { <<>>, <<D_missed>>, <<D_cat, D_two>>, <<D_cat, D_bad>> }

\* os.cpus().length
CpuCounts == {0, 1, 2}

\* the queries and phrases handed to search and searchPhrase
Queries == { Text_cat, Text_dog, Text_The_cat, Text_cat_dog_cat, Text_Missed, Text_empty }

\* the phrases handed to searchPhrase: the queries, and one without a token
Phrases == Queries \cup { Text_punct }

\* the topK handed to search and searchPhrase
TopKs == { 1, DefaultTopK }

DefaultOptions == WorkerOptions(<<>>)

\* the options the index is constructed with
OptionSet ==
    { DefaultOptions,
      [DefaultOptions EXCEPT !.fieldBoosts = [f \in {"title"} |-> 2 * BoostUnit]],
      [DefaultOptions EXCEPT !.fieldBoosts = [f \in {"title"} |-> 3],
                             !.stopWords = {T_the}],
      [DefaultOptions EXCEPT !.stemming = TRUE, !.minLength = 0] }

\* ------------------------------------------------------------------------
\* State
\* ------------------------------------------------------------------------

VARIABLES
    opts,               \* the options given to the constructor
    documents,          \* this.documents
    documentLengths,    \* this.documentLengths
    averageDocLength,   \* this.averageDocLength
    termToIndex,        \* this.termToIndex
    documentFrequency,  \* this.documentFrequency
    termFrequencies,    \* this.termFrequencies
    calls,              \* the addDocumentsParallel calls awaiting their workers
    outcome,            \* the last operation to return, and how
    built,              \* how the index came to its contents since it was empty
    assignedIds         \* the document id each add used, per stored document

indexVars == <<documents, documentLengths, averageDocLength, termToIndex,
               documentFrequency, termFrequencies>>
vars == <<opts, documents, documentLengths, averageDocLength, termToIndex,
          documentFrequency, termFrequencies, calls, outcome, built, assignedIds>>

This ==
    [ documents         |-> documents,
      documentLengths   |-> documentLengths,
      termToIndex       |-> termToIndex,
      documentFrequency |-> documentFrequency,
      averageDocLength  |-> averageDocLength,
      termFrequencies   |-> termFrequencies ]

SetThis(ix) ==
    /\ documents' = ix.documents
    /\ documentLengths' = ix.documentLengths
    /\ termToIndex' = ix.termToIndex
    /\ documentFrequency' = ix.documentFrequency
    /\ averageDocLength' = ix.averageDocLength
    /\ termFrequencies' = ix.termFrequencies

InitThis(ix) ==
    /\ documents = ix.documents
    /\ documentLengths = ix.documentLengths
    /\ termToIndex = ix.termToIndex
    /\ documentFrequency = ix.documentFrequency
    /\ averageDocLength = ix.averageDocLength
    /\ termFrequencies = ix.termFrequencies

Returned(op, err, resp) == [op |-> op, err |-> err, resp |-> resp]

\* documents of calls that have not merged yet
RECURSIVE PendingDocs(_)
PendingDocs(cs) ==
    IF cs = {} THEN 0
    ELSE LET c == CHOOSE c \in cs : TRUE
         IN  Len(calls[c].docs) + PendingDocs(cs \ {c})

Room == MaxDocs - Len(documents) - PendingDocs(DOMAIN calls)

Init ==
    /\ opts \in OptionSet
    /\ \E docs \in InitLists :
          /\ ~ConstructorThrows(docs)
          /\ InitThis(Constructor(opts, docs))
          /\ built = [by |-> IF docs = <<>> THEN "none" ELSE "constructor", docs |-> docs]
          /\ assignedIds = [i \in 1..Len(docs) |-> i - 1]
    /\ calls = <<>>
    /\ outcome = Returned("constructor", "none", <<>>)

\* how the index was built, after one more addDocument
BuiltAfterAdd(b, doc, err) ==
    IF err = "NullDocument" THEN b
    ELSE IF err = "none" /\ b.by \in {"none", "addDocument"}
    THEN [by |-> "addDocument", docs |-> Append(b.docs, doc)]
    ELSE [by |-> "other", docs |-> <<>>]

\* const docIndex = this.documentLengths.length, once the document is there
IdsAfterAdd(ids, lengths, doc) ==
    IF doc.absent THEN ids ELSE Append(ids, Len(lengths))

\* the call returns r = [ix, err]
AddDocumentReturns(doc, r) ==
    /\ SetThis(r.ix)
    /\ outcome' = Returned("addDocument", r.err, <<>>)
    /\ built' = BuiltAfterAdd(built, doc, r.err)

AddDocument(doc) ==
    /\ (Room >= 1 \/ doc.absent)
    /\ AddDocumentReturns(doc, addDocument(opts, This, doc))
    /\ assignedIds' = IdsAfterAdd(assignedIds, documentLengths, doc)
    /\ UNCHANGED <<opts, calls>>

RECURSIVE BuiltAfterAdds(_, _, _, _)

BuiltAfterAddsStep(o, b, docs, r) ==
    BuiltAfterAdds(o, r.ix, BuiltAfterAdd(b, Head(docs), r.err), Tail(docs))

BuiltAfterAdds(o, ix, b, docs) ==
    IF docs = <<>> THEN b
    ELSE BuiltAfterAddsStep(o, b, docs, addDocument(o, ix, Head(docs)))

RECURSIVE IdsAfterAdds(_, _, _, _)
IdsAfterAdds(o, ix, ids, docs) ==
    IF docs = <<>> THEN ids
    ELSE IdsAfterAdds(o, addDocument(o, ix, Head(docs)).ix,
                      IdsAfterAdd(ids, ix.documentLengths, Head(docs)), Tail(docs))

AddDocuments(docs) ==
    /\ Room >= Len(docs)
    /\ SetThis(addDocuments(opts, This, docs))
    /\ outcome' = Returned("addDocuments", "none", <<>>)
    /\ built' = BuiltAfterAdds(opts, This, built, docs)
    /\ assignedIds' = IdsAfterAdds(opts, This, assignedIds, docs)
    /\ UNCHANGED <<opts, calls>>

\* clearDocuments that gives documentFrequency the size of the vocabulary
\* it had, in place of an empty array
ClearDocuments_KeepsFrequencySlots ==
    /\ SetThis([EmptyIndex EXCEPT !.documentFrequency = Zeros(Len(documentFrequency))])
    /\ outcome' = Returned("clearDocuments", "none", <<>>)
    /\ built' = [by |-> "none", docs |-> <<>>]
    /\ assignedIds' = <<>>
    /\ UNCHANGED <<opts, calls>>

ClearDocuments ==
    /\ SetThis([EmptyIndex EXCEPT !.termToIndex = <<>>])
    /\ outcome' = Returned("clearDocuments", "none", <<>>)
    /\ built' = [by |-> "none", docs |-> <<>>]
    /\ assignedIds' = <<>>
    /\ UNCHANGED <<opts, calls>>

\* a call awaiting its workers: one promise per worker, all pending; order
\* lists the workers that have posted a result, first to finish first
NewCall(docs, slices) ==
    [ docs    |-> docs,
      slices  |-> slices,
      resp    |-> [i \in 1..Len(slices) |-> "pending"],
      order   |-> <<>>,
      onEmpty |-> built.by = "none" /\ documents = <<>> ]

\* addDocumentsParallel without its first line: workers are started for an
\* empty list as for any other
StartParallel_NoEarlyReturn(docs, cpus) ==
    /\ Cardinality(DOMAIN calls) < MaxCalls
    /\ Room >= Len(docs)
    /\ calls' = Put(calls, CHOOSE c \in 1..MaxCalls : c \notin DOMAIN calls,
                    NewCall(docs, Slices(docs, NumWorkers(cpus))))
    /\ UNCHANGED <<opts, indexVars, outcome, built, assignedIds>>

\* addDocumentsParallel(undefined): !docs holds and the call returns at once
StartParallelAbsent ==
    /\ outcome' = Returned("addDocumentsParallel", "none", <<>>)
    /\ UNCHANGED <<opts, indexVars, calls, built, assignedIds>>

\* addDocumentsParallel up to `await Promise.all(workerPromises)`: nothing
\* for an empty list, else one worker per slice, each posted its slice
StartParallel(docs, cpus) ==
    /\ Cardinality(DOMAIN calls) < MaxCalls
    /\ Room >= Len(docs)
    /\ IF Len(docs) = 0
       THEN /\ outcome' = Returned("addDocumentsParallel", "none", <<>>)
            /\ UNCHANGED calls
       ELSE /\ calls' = Put(calls, CHOOSE c \in 1..MaxCalls : c \notin DOMAIN calls,
                            NewCall(docs, Slices(docs, NumWorkers(cpus))))
            /\ UNCHANGED outcome
    /\ UNCHANGED <<opts, indexVars, built, assignedIds>>

\* worker i posts its result: worker.on('message', resolve)
WorkerMessage(c, i) ==
    /\ c \in DOMAIN calls
    /\ i \in 1..Len(calls[c].slices)
    /\ calls[c].resp[i] = "pending"
    /\ ~WorkerThrows(calls[c].slices[i])
    /\ calls' = [calls EXCEPT ![c].resp[i] = "message",
                              ![c].order = Append(@, i)]
    /\ UNCHANGED <<opts, indexVars, outcome, built, assignedIds>>

\* worker i raises 'error' (its handler threw, or the thread failed):
\* worker.on('error', reject)
WorkerError(c, i) ==
    /\ c \in DOMAIN calls
    /\ i \in 1..Len(calls[c].slices)
    /\ calls[c].resp[i] = "pending"
    /\ calls' = [calls EXCEPT ![c].resp[i] = "error"]
    /\ UNCHANGED <<opts, indexVars, outcome, built, assignedIds>>

Remove(m, k) == [x \in (DOMAIN m) \ {k} |-> m[x]]

\* terminate() called only on the workers that have answered
TerminateWorkers_Settled(call) ==
    { i \in 1..Len(call.slices) : call.resp[i] # "pending" }

\* finally { workers.forEach((worker) => worker.terminate()) }: the workers
\* asked to terminate, every one the call has created
TerminateWorkers(call) == 1..Len(call.slices)

\* Promise.allSettled in the place of Promise.all: the await ends once no
\* worker is pending, whatever each has answered
PromiseAllResolves_Settled(resp) == \A i \in 1..Len(resp) : resp[i] # "pending"

\* Promise.any in the place of Promise.all: the await ends as soon as one
\* worker has posted its result
PromiseAllResolves_Any(resp) == \E i \in 1..Len(resp) : resp[i] = "message"

\* Promise.all(workerPromises) resolves: every worker has posted its result
PromiseAllResolves(resp) == \A i \in 1..Len(resp) : resp[i] = "message"

\* Promise.all(workerPromises) rejects: some worker has raised 'error'
PromiseAllRejects(resp) == \E i \in 1..Len(resp) : resp[i] = "error"

\* the results taken in the order in which the workers finished
ResultsOf_CompletionOrder(o, call) ==
    [ k \in 1..Len(call.order) |->
        WorkerResult(o.fieldBoosts, call.slices[call.order[k]]) ]

\* the results array: one per worker that posted one, in worker order
ResultsOf(o, call) ==
    LET idx == SelectSeq([i \in 1..Len(call.slices) |-> i],
                         LAMBDA i : call.resp[i] = "message")
    IN  [ k \in 1..Len(idx) |-> WorkerResult(o.fieldBoosts, call.slices[idx[k]]) ]

\* the call resumes after the await, merges and returns
ParallelResolve(c) ==
    /\ c \in DOMAIN calls
    /\ PromiseAllResolves(calls[c].resp)
    /\ \E merged \in { MergeParallel(This, calls[c].docs, ResultsOf(opts, calls[c])) } :
          SetThis(merged)
    /\ calls' = Remove(calls, c)
    /\ outcome' = [op |-> "addDocumentsParallel", err |-> "none",
                    resp |-> calls[c].resp, order |-> calls[c].order,
                    terminated |-> TerminateWorkers(calls[c])]
    /\ built' = IF calls[c].onEmpty /\ built.by = "none" /\ documents = <<>>
                THEN [by |-> "addDocumentsParallel", docs |-> calls[c].docs]
                ELSE [by |-> "other", docs |-> <<>>]
    /\ assignedIds' = assignedIds \o
                        [i \in 1..Len(calls[c].docs) |-> Len(documents) + i - 1]
    /\ UNCHANGED opts

\* the await throws: the finally block runs and the call rejects
ParallelReject(c) ==
    /\ c \in DOMAIN calls
    /\ PromiseAllRejects(calls[c].resp)
    /\ calls' = Remove(calls, c)
    /\ outcome' = [op |-> "addDocumentsParallel", err |-> "WorkerFailure",
                    resp |-> calls[c].resp, order |-> calls[c].order,
                    terminated |-> TerminateWorkers(calls[c])]
    /\ UNCHANGED <<opts, indexVars, built, assignedIds>>

\* what search and searchPhrase hand back: the list, or the error thrown
SearchReturned(op, query, topK, err, resp) ==
    [op |-> op, err |-> err, resp |-> resp, query |-> query, topK |-> topK]

\* search that also enters the query's unknown terms into the vocabulary
Search_RegistersTerms(query, topK) ==
    /\ ~SearchThrows(query)
    /\ outcome' = SearchReturned("search", query, topK, "none",
                                 search(opts, This, query, topK))
    /\ termToIndex' = [ t \in DOMAIN termToIndex \cup
                                { Tokenize(opts, query)[i] :
                                    i \in 1..Len(Tokenize(opts, query)) } |->
                          IF t \in DOMAIN termToIndex THEN termToIndex[t]
                          ELSE Cardinality(DOMAIN termToIndex) ]
    /\ UNCHANGED <<opts, documents, documentLengths, averageDocLength,
                   documentFrequency, termFrequencies, calls, built, assignedIds>>

\* BM25.search: no field of the index is assigned
Search(query, topK) ==
    /\ outcome' = IF SearchThrows(query)
                  THEN SearchReturned("search", query, topK, "InvalidInput", <<>>)
                  ELSE SearchReturned("search", query, topK, "none",
                                      search(opts, This, query, topK))
    /\ UNCHANGED <<opts, indexVars, calls, built, assignedIds>>

\* BM25.searchPhrase: no field of the index is assigned
SearchPhrase(phrase, topK) ==
    /\ outcome' = IF SearchPhraseError(opts, This, phrase) # "none"
                  THEN SearchReturned("searchPhrase", phrase, topK,
                                      SearchPhraseError(opts, This, phrase), <<>>)
                  ELSE SearchReturned("searchPhrase", phrase, topK, "none",
                                      searchPhrase(opts, This, phrase, topK))
    /\ UNCHANGED <<opts, indexVars, calls, built, assignedIds>>

Next ==
    \/ \E doc \in DocPool : AddDocument(doc)
    \/ \E docs \in AddLists : AddDocuments(docs)
    \/ \E docs \in ParallelLists, cpus \in CpuCounts : StartParallel(docs, cpus)
    \/ StartParallelAbsent
    \/ \E c \in 1..MaxCalls, i \in 1..(MaxDocs + 1) : WorkerMessage(c, i)
    \/ \E c \in 1..MaxCalls, i \in 1..(MaxDocs + 1) : WorkerError(c, i)
    \/ \E c \in 1..MaxCalls : ParallelResolve(c)
    \/ \E c \in 1..MaxCalls : ParallelReject(c)
    \/ ClearDocuments

Spec == Init /\ [][Next]_vars

\* the await of call c is over: Promise.all has settled and the call leaves
\* the awaiting calls, which is what ParallelResolve(c) and ParallelReject(c)
\* do to calls and no other step does
AwaitEnds(c) ==
    /\ c \in DOMAIN calls
    /\ PromiseAllResolves(calls[c].resp) \/ PromiseAllRejects(calls[c].resp)
    /\ calls' = Remove(calls, c)

\* the index with its scheduling: once Promise.all has settled, the event
\* loop runs the continuation of the await, so a call that can resume does;
\* nothing makes a worker answer
LiveSpec ==
    /\ Init
    /\ [][Next]_vars
    /\ \A c \in 1..MaxCalls : WF_calls(AwaitEnds(c))

\* ------------------------------------------------------------------------
\* The tokenizer on its own: new Tokenizer(options), then tokenize(text)
\* ------------------------------------------------------------------------

\* the most words in a text handed to tokenize
MaxWords == 2

T_cats      == <<"c","a","t","s">>
T_standings == <<"s","t","a","n","d","i","n","g","s">>
T_as        == <<"a","s">>
T_12        == <<"1","2">>

\* the words the texts are made of
TokWords == { T_cats, T_standings, T_as, T_12, T_the }

RECURSIVE JoinWords(_)
\* the words with one space between them
JoinWords(ws) ==
    IF Len(ws) = 0 THEN <<>>
    ELSE IF Len(ws) = 1 THEN ws[1]
    ELSE ws[1] \o <<" ">> \o JoinWords(Tail(ws))

\* texts with capitals, punctuation, symbols, accents, CJK and irregular
\* white space: 'Hello, World(TM)!', 'hEllo (wave)' with an accented e,
\* 'Hi (two ideographs)!', 'test(c)23', and ' as  (ga)(nbsp)(tab)(han)'
Text_Hello_World == <<"H","e","l","l","o",","," ","W","o","r","l","d","TM","!">>
Text_hello_wave  == <<"h","E_ACUTE","l","l","o"," ","WAVE">>
Text_Hi_CJK      == <<"H","i"," ","CJK_SE","CJK_KAI","!">>
Text_test_c_23   == <<"t","e","s","t","COPYRIGHT","2","3">>
Text_spaces      == <<" ","a","s"," "," ","KANA_GA","NBSP","TAB","HANGUL_HAN">>

CleanTexts ==
    { Text_Hello_World, Text_hello_wave, Text_Hi_CJK, Text_test_c_23, Text_spaces }

\* the texts handed to tokenize
TokTexts ==
    { Text_empty, Text_Missed, Text_punct } \cup CleanTexts \cup
    { JoinWords(ws) : ws \in UNION { [1..n -> TokWords] : n \in 1..MaxWords } }

\* the rule { pattern: /^(.*?)<suffix>$/, replacement: '$1', minMeasure }
DropSuffixRule(suffix, minMeasure) ==
    [suffix |-> suffix, replacement |-> <<>>, minMeasure |-> minMeasure]

\* the options the tokenizer is constructed with
TokOptionSet ==
    { DefaultOptions,
      [DefaultOptions EXCEPT !.minLength = 3, !.stopWords = {T_the}],
      [DefaultOptions EXCEPT !.stemming = TRUE, !.stopWords = {T_cat}],
      [DefaultOptions EXCEPT !.stemming = TRUE, !.minLength = 4],
      [DefaultOptions EXCEPT !.stemming = TRUE,
                             !.stemmingRules = << DropSuffixRule(<<"s">>, 2) >>],
      [DefaultOptions EXCEPT !.stemming = TRUE,
                             !.stemmingRules = << DropSuffixRule(<<"s">>, 1) >>],
      [DefaultOptions EXCEPT !.stemming = TRUE,
                             !.stemmingRules = << DropSuffixRule(<<"s">>, 0) >>],
      [DefaultOptions EXCEPT !.stemming = TRUE,
                             !.stemmingRules = << DropSuffixRule(<<"s">>, 2),
                                                  DropSuffixRule(<<"i","n","g">>, 0) >>] }

\* no index is involved: its fields stay those of an empty one
TokInit ==
    /\ opts \in TokOptionSet
    /\ InitThis(EmptyIndex)
    /\ calls = <<>>
    /\ built = [by |-> "none", docs |-> <<>>]
    /\ assignedIds = <<>>
    /\ outcome = [op |-> "Tokenizer", err |-> "none", resp |-> <<>>, text |-> <<>>]

\* Tokenizer.tokenize(text): the tokens, or the error thrown
TokenizeText(text) ==
    /\ outcome' = IF TokenizeThrows(text)
                  THEN [op |-> "tokenize", err |-> "InvalidInput", resp |-> <<>>,
                        text |-> text]
                  ELSE [op |-> "tokenize", err |-> "none",
                        resp |-> Tokenize(opts, text), text |-> text]
    /\ UNCHANGED <<opts, indexVars, calls, built, assignedIds>>

TokNext == \E text \in TokTexts : TokenizeText(text)

TokSpec == TokInit /\ [][TokNext]_vars

\* the index under queries: searches between the synchronous mutations
SearchNext ==
    \/ \E query \in Queries, topK \in TopKs : Search(query, topK)
    \/ \E phrase \in Phrases, topK \in TopKs : SearchPhrase(phrase, topK)
    \/ \E doc \in DocPool : AddDocument(doc)
    \/ ClearDocuments

SearchSpec == Init /\ [][SearchNext]_vars

\* ------------------------------------------------------------------------
\* Properties
\* ------------------------------------------------------------------------

\* the statistics of an index: everything but the stored documents
Statistics(ix) ==
    [ termToIndex       |-> ix.termToIndex,
      termFrequencies   |-> ix.termFrequencies,
      documentFrequency |-> ix.documentFrequency,
      documentLengths   |-> ix.documentLengths,
      averageDocLength  |-> ix.averageDocLength ]

\* the statistics and the document count (getDocumentCount)
IndexState(ix) == <<Statistics(ix), Len(ix.documents)>>

\* C1: from an empty index, addDocumentsParallel(B) leaves the index state
\* (vocabulary, TF, DF, lengths, average length, document count) that
\* addDocuments(B) leaves on an empty index with the same options.
C1_MergeEquivalence ==
    built.by = "addDocumentsParallel" =>
        IndexState(This) = IndexState(addDocuments(opts, EmptyIndex, built.docs))

\* the term ids of the vocabulary
TermIds == { termToIndex[w] : w \in DOMAIN termToIndex }

\* the documents d with TF[t][d] > 0
DocsWithTerm(t) ==
    IF t \in DOMAIN termFrequencies
    THEN { d \in DOMAIN termFrequencies[t] : termFrequencies[t][d] > 0 }
    ELSE {}

\* C2: for every term id t, the stored DF[t] is the number of distinct
\* documents d with TF[t][d] > 0.
C2_DocumentFrequency ==
    \A t \in TermIds :
        /\ t < Len(documentFrequency)
        /\ documentFrequency[t + 1] = Cardinality(DocsWithTerm(t))

RECURSIVE BoostedOccurrences(_, _, _)
\* the sum over the fields of (occurrences of term in the field's tokens
\* times the field's boost), in 1 / BoostUnit
BoostedOccurrences(o, entries, term) ==
    IF entries = <<>> THEN 0
    ELSE Count(Tokenize(o, Head(entries)[2]), term) * FieldBoost(o, Head(entries)[1])
         + BoostedOccurrences(o, Tail(entries), term)

\* TF[t][d] for the term string term, 0 when there is no entry
StoredTF(term, d) ==
    IF /\ term \in DOMAIN termToIndex
       /\ termToIndex[term] \in DOMAIN termFrequencies
       /\ d \in DOMAIN termFrequencies[termToIndex[term]]
    THEN termFrequencies[termToIndex[term]][d]
    ELSE 0

\* C3: once the documents have been indexed (by the constructor, by
\* addDocument / addDocuments or by addDocumentsParallel, from empty and
\* with no failure), TF[t][d] is the sum over d's fields of the occurrences
\* of t times the field's boost, and every stored TF entry is positive.
C3_TermFrequency ==
    built.by \in {"constructor", "addDocument", "addDocumentsParallel"} =>
        /\ \A d \in 1..Len(built.docs), term \in DOMAIN termToIndex :
              StoredTF(term, d - 1) = BoostedOccurrences(opts, built.docs[d].entries, term)
        /\ \A t \in DOMAIN termFrequencies :
              \A d \in DOMAIN termFrequencies[t] : termFrequencies[t][d] > 0

\* C4: the statistics after addDocument has been applied to each document
\* of a list, in order, on an empty index are those of the constructor
\* given the list.
C4_BulkEqualsIncremental ==
    built.by = "addDocument" =>
        Statistics(This) = Statistics(Constructor(opts, built.docs))

\* C5: between any two operations, also while addDocumentsParallel awaits
\* its workers, the average length of a non-empty index is the sum of the
\* stored document lengths divided by their number.
C5_AverageLength ==
    Len(documentLengths) > 0 =>
        averageDocLength = Ratio(SumSeq(documentLengths), Len(documentLengths))

\* search(query) does not throw and lists the document d with a score > 0
Finds(o, ix, query, d) ==
    /\ ~SearchThrows(query)
    /\ LET found == search(o, ix, query, DefaultTopK)
       IN  \E i \in 1..Len(found) : found[i].index = d /\ found[i].score > 0

\* the index is the one the constructor built from the single document
\* built.docs[1]
BuiltFromOne == built.by = "constructor" /\ Len(built.docs) = 1

\* the words of a text: the fragments of its cleaned form
Words(text) == Split(cleanText(text))

C7_InvalidInputChangesNothing ==
    [][\A doc \in DocPool :
          (AddDocument(doc) /\ ~doc.absent /\ DocThrows(doc))
          => (outcome'.err = "InvalidInput" /\ UNCHANGED indexVars)]_vars

\* C8: an addDocument whose document is absent rejects with NullDocument
\* and leaves the index as it was.
C8_NullDocumentChangesNothing ==
    [][\A doc \in { d \in DocPool : d.absent } :
          AddDocument(doc)
          => (outcome'.err = "NullDocument" /\ UNCHANGED indexVars)]_vars

\* addDocument(null) has rejected on an index that holds documents
C8_Witness ==
    /\ outcome.op = "addDocument"
    /\ outcome.err = "NullDocument"
    /\ documents # <<>>
    /\ termToIndex # <<>>

\* C9: a call one of whose workers has failed ends by rejecting with
\* WorkerFailure, and the step that ends it leaves the index as it was:
\* nothing of any slice is merged.
C9_NoPartialMerge ==
    [][\A c \in DOMAIN calls :
          (PromiseAllRejects(calls[c].resp) /\ c \notin DOMAIN calls')
          => /\ UNCHANGED indexVars
             /\ outcome'.op = "addDocumentsParallel"
             /\ outcome'.err = "WorkerFailure"]_vars

\* a call has rejected after one of its workers had posted a result
C9_Witness ==
    /\ outcome.op = "addDocumentsParallel"
    /\ outcome.err = "WorkerFailure"
    /\ \E i \in 1..Len(outcome.resp) : outcome.resp[i] = "message"
    /\ \E i \in 1..Len(outcome.resp) : outcome.resp[i] = "error"

\* C10 (document ids): every document id an add assigns is greater than
\* every id assigned before it, so none is used for two documents.
C10_MonotonicIds ==
    \A i \in 1..Len(assignedIds) :
        \A j \in 1..Len(assignedIds) : i < j => assignedIds[i] < assignedIds[j]

\* the documents to which search gives a positive total score for the query
PositiveDocs(o, ix, query) ==
    { d \in 0..(Len(ix.documentLengths) - 1) :
        /\ ~ScoreTokens(ix, [ i \in 1..Len(ix.documentLengths) |-> Num(0) ],
                        Tokenize(o, query))[d + 1].nan
        /\ ScoreTokens(ix, [ i \in 1..Len(ix.documentLengths) |-> Num(0) ],
                       Tokenize(o, query))[d + 1].v > 0 }

\* C11: the list search returns has only positive scores, is ordered by
\* non-increasing score, names no document twice, and holds topK entries
\* or, when fewer documents score above 0, all of those.
C11_SearchResultShape ==
    (outcome.op = "search" /\ outcome.err = "none") =>
        /\ \A i \in 1..Len(outcome.resp) : outcome.resp[i].score > 0
        /\ \A i \in 1..Len(outcome.resp) : \A j \in 1..Len(outcome.resp) :
               /\ i < j => outcome.resp[i].score >= outcome.resp[j].score
               /\ i # j => outcome.resp[i].index # outcome.resp[j].index
        /\ Len(outcome.resp) =
               Min(outcome.topK, Cardinality(PositiveDocs(opts, This, outcome.query)))

\* search has cut two documents with a positive score down to topK = 1
C11_Witness ==
    /\ outcome.op = "search"
    /\ outcome.err = "none"
    /\ outcome.topK = 1
    /\ Len(outcome.resp) = 1
    /\ Cardinality(PositiveDocs(opts, This, outcome.query)) = 2

RECURSIVE EachAddDocument(_, _, _)
\* addDocument applied to each element in order: [ix, err], err the first
\* error an element's add has thrown
EachAddDocument(o, r, docs) ==
    IF docs = <<>> THEN r
    ELSE EachAddDocument(o,
             [ix  |-> addDocument(o, r.ix, Head(docs)).ix,
              err |-> IF r.err # "none" THEN r.err
                      ELSE addDocument(o, r.ix, Head(docs)).err],
             Tail(docs))

\* C13: addDocuments(docs) leaves the index that addDocument applied to
\* each element in order leaves, and fails when an element's add fails.
C13_AddDocumentsIsEachAddDocument ==
    [][\A docs \in AddLists :
          AddDocuments(docs)
          => /\ This' = EachAddDocument(opts, [ix |-> This, err |-> "none"], docs).ix
             /\ outcome'.err =
                   EachAddDocument(opts, [ix |-> This, err |-> "none"], docs).err]_vars

\* C14: right after clearDocuments the index is the one a constructor given
\* no documents leaves, and the documents added one by one since the index
\* was last empty, by clearDocuments or by construction, give the index and
\* the search results they give on a fresh empty index.
C14_ClearIsFresh ==
    /\ outcome.op = "clearDocuments" => This = Constructor(opts, <<>>)
    /\ built.by = "addDocument" =>
          LET fresh == addDocuments(opts, Constructor(opts, <<>>), built.docs)
          IN  /\ This = fresh
              /\ \A q \in Queries \ {Text_empty} :
                    search(opts, This, q, DefaultTopK)
                      = search(opts, fresh, q, DefaultTopK)

\* clearDocuments has emptied an index that held documents when a call of
\* addDocumentsParallel, still awaiting its workers, began
C14_Witness ==
    /\ outcome.op = "clearDocuments"
    /\ documents = <<>>
    /\ \E c \in DOMAIN calls : ~calls[c].onEmpty

\* C15: addDocumentsParallel with an empty or an absent list returns
\* successfully, starts no worker and changes no field of the index.
C15_EmptyParallelIsNoOp ==
    [][((\E cpus \in CpuCounts : StartParallel(<<>>, cpus)) \/ StartParallelAbsent)
          => /\ UNCHANGED <<indexVars, calls>>
             /\ outcome'.op = "addDocumentsParallel"
             /\ outcome'.err = "none"]_vars

\* addDocumentsParallel has returned without workers on an index that holds
\* documents
C15_Witness ==
    /\ outcome.op = "addDocumentsParallel"
    /\ outcome.err = "none"
    /\ outcome.resp = <<>>
    /\ documents # <<>>
    /\ calls = <<>>

\* the words of a text that pass the filter of tokenize, before stemming:
\* the k-th token of the output comes from the k-th of them
ValidWords(o, text) ==
    SelectSeq(Split(cleanText(text)), LAMBDA t : isValidToken(o, t))

\* tokenize has returned a list of tokens
Tokenized == outcome.op = "tokenize" /\ outcome.err = "none"

\* C16: no token of the output of tokenize is a member of stopWords.
C16_NoStopWordInOutput ==
    Tokenized => \A k \in 1..Len(outcome.resp) : outcome.resp[k] \notin opts.stopWords

\* C17: no token of the output of tokenize is shorter than minLength,
\* unless it is all digits.
C17_NoShortTokenInOutput ==
    Tokenized => \A k \in 1..Len(outcome.resp) :
                    Len(outcome.resp[k]) >= opts.minLength \/ isNumeric(outcome.resp[k])

\* C18: every all-digit word of the text that is not a stop word is a token
\* of the output of tokenize, whatever its length.
C18_NumericWordsKept ==
    Tokenized => \A i \in 1..Len(Split(outcome.text)) :
                    (/\ isNumeric(Split(outcome.text)[i])
                     /\ Split(outcome.text)[i] \notin opts.stopWords)
                    => \E k \in 1..Len(outcome.resp) :
                          outcome.resp[k] = Split(outcome.text)[i]

\* the pattern of the rule matches the word
RuleMatches(rule, w) == EndsWith(w, rule.suffix)

\* the rule fires on the word: its pattern matches and its minimum measure
\* is unset or met
RuleFires(rule, w) ==
    RuleMatches(rule, w) /\ (rule.minMeasure = 0 \/ measure(w) >= rule.minMeasure)

\* the word as the rule rewrites it
RuleRewrite(rule, w) == DropLast(w, Len(rule.suffix)) \o rule.replacement

RECURSIVE AfterFiring(_, _)
\* the word after each rule in turn has rewritten it, if it fires on what
\* the rules before it have left
AfterFiring(rules, w) ==
    IF rules = <<>> THEN w
    ELSE IF RuleFires(Head(rules), w)
    THEN AfterFiring(Tail(rules), RuleRewrite(Head(rules), w))
    ELSE AfterFiring(Tail(rules), w)

RECURSIVE SomeRuleFires(_, _)
SomeRuleFires(rules, w) ==
    IF rules = <<>> THEN FALSE
    ELSE IF RuleFires(Head(rules), w)
    THEN TRUE
    ELSE SomeRuleFires(Tail(rules), w)

RECURSIVE SomeRuleMatches(_, _)
\* some rule's pattern matches what the rules before it have left
SomeRuleMatches(rules, w) ==
    IF rules = <<>> THEN FALSE
    ELSE IF RuleMatches(Head(rules), w) THEN TRUE
    ELSE SomeRuleMatches(Tail(rules), w)

\* C19, as stated: with stemming on, a word is rewritten by the custom
\* rules that fire on it, and by the default rules when none fires.
C19_DefaultUnlessRuleFires ==
    (Tokenized /\ opts.stemming) =>
        \A k \in 1..Len(outcome.resp) :
            outcome.resp[k] =
                IF SomeRuleFires(opts.stemmingRules, ValidWords(opts, outcome.text)[k])
                THEN AfterFiring(opts.stemmingRules, ValidWords(opts, outcome.text)[k])
                ELSE applyDefaultStemmingRules(ValidWords(opts, outcome.text)[k])

\* C19, amended: with stemming on, a word of three characters or more is
\* rewritten by the custom rules that fire on it; the default rules are
\* applied when no custom rule's pattern matches it, and are skipped as
\* soon as one matches, fired or not.  A shorter word is left as it is.
C19_DefaultUnlessPatternMatches ==
    (Tokenized /\ opts.stemming) =>
        \A k \in 1..Len(outcome.resp) :
            outcome.resp[k] =
                IF Len(ValidWords(opts, outcome.text)[k]) < 3
                THEN ValidWords(opts, outcome.text)[k]
                ELSE IF SomeRuleMatches(opts.stemmingRules, ValidWords(opts, outcome.text)[k])
                THEN AfterFiring(opts.stemmingRules, ValidWords(opts, outcome.text)[k])
                ELSE applyDefaultStemmingRules(ValidWords(opts, outcome.text)[k])

\* a word that a custom rule matches without firing has come out unchanged
\* though the default rules would have rewritten it
C19_Witness ==
    /\ Tokenized
    /\ opts.stemming
    /\ \E k \in 1..Len(outcome.resp) :
          /\ Len(ValidWords(opts, outcome.text)[k]) >= 3
          /\ SomeRuleMatches(opts.stemmingRules, ValidWords(opts, outcome.text)[k])
          /\ ~SomeRuleFires(opts.stemmingRules, ValidWords(opts, outcome.text)[k])
          /\ outcome.resp[k] = ValidWords(opts, outcome.text)[k]
          /\ applyDefaultStemmingRules(ValidWords(opts, outcome.text)[k])
                # ValidWords(opts, outcome.text)[k]

\* the tokenizer has stemming on and one custom rule, which has a minMeasure
OneMeasuredRule ==
    /\ opts.stemming
    /\ Len(opts.stemmingRules) = 1
    /\ opts.stemmingRules[1].minMeasure > 0

\* C20, as stated: with one custom rule that has a minMeasure, a word the
\* pattern matches comes out unchanged when its measure is below
\* minMeasure and rewritten by the rule otherwise.
C20_MinMeasureDecides ==
    (Tokenized /\ OneMeasuredRule) =>
        \A k \in 1..Len(outcome.resp) :
            RuleMatches(opts.stemmingRules[1], ValidWords(opts, outcome.text)[k])
            => outcome.resp[k] =
                  IF measure(ValidWords(opts, outcome.text)[k])
                        < opts.stemmingRules[1].minMeasure
                  THEN ValidWords(opts, outcome.text)[k]
                  ELSE RuleRewrite(opts.stemmingRules[1], ValidWords(opts, outcome.text)[k])

\* C20, amended: the same for the words of three characters or more; a
\* shorter word comes out unchanged whatever its measure.
C20_MinMeasureDecidesLongWords ==
    (Tokenized /\ OneMeasuredRule) =>
        \A k \in 1..Len(outcome.resp) :
            RuleMatches(opts.stemmingRules[1], ValidWords(opts, outcome.text)[k])
            => outcome.resp[k] =
                  IF \/ Len(ValidWords(opts, outcome.text)[k]) < 3
                     \/ measure(ValidWords(opts, outcome.text)[k])
                           < opts.stemmingRules[1].minMeasure
                  THEN ValidWords(opts, outcome.text)[k]
                  ELSE RuleRewrite(opts.stemmingRules[1], ValidWords(opts, outcome.text)[k])

\* 'cats standings' under the rule /^(.*?)s$/ -> '$1' with minMeasure 2
\* has come out as 'cats', 'standing'
C20_Witness ==
    /\ Tokenized
    /\ OneMeasuredRule
    /\ opts.stemmingRules[1].minMeasure = 2
    /\ outcome.text = JoinWords(<<T_cats, T_standings>>)
    /\ outcome.resp = <<T_cats, DropLast(T_standings, 1)>>

\* a field text that, tokenized on its own, holds the phrase's tokens as a
\* contiguous run (an empty field has no tokens)
FieldHasPhrase(o, content, phraseTokens) ==
    content # <<>> /\ HasPhrase(Tokenize(o, content), phraseTokens)

\* the stored documents (by position in documents) of which some field
\* holds the phrase
DocsWithPhrase(o, ix, phraseTokens) ==
    { d \in 0..(Len(ix.documents) - 1) :
        \E k \in 1..Len(ix.documents[d + 1].entries) :
            FieldHasPhrase(o, ix.documents[d + 1].entries[k][2], phraseTokens) }

\* the index of every entry of a result list
IndexesOf(rs) == { rs[i].index : i \in 1..Len(rs) }

\* the documents searchPhrase names when it is not cut short by topK
PhraseHits(o, ix, phrase) ==
    IndexesOf(searchPhrase(o, ix, phrase, Len(ix.documents) + 1))

\* C21: for every phrase with at least one token on which searchPhrase
\* returns, the documents it returns are exactly the stored documents of
\* which some field, tokenized on its own, holds the phrase's tokens as a
\* contiguous run.
C21_PhraseIffContiguous ==
    \A phrase \in Queries :
        (/\ SearchPhraseError(opts, This, phrase) = "none"
         /\ Tokenize(opts, phrase) # <<>>)
        => PhraseHits(opts, This, phrase)
              = DocsWithPhrase(opts, This, Tokenize(opts, phrase))

\* C22: searchPhrase with a phrase whose tokenization is empty returns the
\* empty list, whatever the index holds.
C22_EmptyPhraseFindsNothing ==
    (/\ outcome.op = "searchPhrase"
     /\ ~TokenizeThrows(outcome.query)
     /\ Tokenize(opts, outcome.query) = <<>>)
    => (outcome.err = "none" /\ outcome.resp = <<>>)

\* searchPhrase has returned for a phrase without tokens on an index that
\* holds a document it could tokenize
C22_Witness ==
    /\ outcome.op = "searchPhrase"
    /\ outcome.err = "none"
    /\ Tokenize(opts, outcome.query) = <<>>
    /\ \E d \in 1..Len(documents) : ~DocThrows(documents[d])

\* C23: normalizing a normalized text again gives the same string, for
\* every non-empty text whose normalized form is not empty.
C23_CleanTextIdempotent ==
    (Tokenized /\ cleanText(outcome.text) # <<>>)
    => cleanText(cleanText(outcome.text)) = cleanText(outcome.text)

\* tokenize has normalized 'Hello, World(TM)!' to 'hello world'
C23_Witness ==
    /\ Tokenized
    /\ outcome.text = Text_Hello_World
    /\ cleanText(outcome.text)
          = <<"h","e","l","l","o"," ","w","o","r","l","d">>
    /\ outcome.resp # <<>>

\* the call c resumes after its await and merges in this step
Merges(c) ==
    /\ c \in DOMAIN calls
    /\ c \notin DOMAIN calls'
    /\ PromiseAllResolves(calls[c].resp)

\* the number of documents in the slices before slice i
SizeBefore(slices, i) == SumSeq([ k \in 1..(i - 1) |-> Len(slices[k]) ])

\* the terms a worker finds in a document
WorkerTerms(fieldBoosts, doc) ==
    UNION { { Tokenize(WorkerOptions(fieldBoosts), doc.entries[k][2])[n] :
                n \in 1..Len(Tokenize(WorkerOptions(fieldBoosts), doc.entries[k][2])) } :
            k \in 1..Len(doc.entries) }

\* the j-th document of slice i is stored under the id and every term of it
\* has a frequency for that id
StoredUnder(doc, id) ==
    /\ id < Len(documents')
    /\ documents'[id + 1] = doc
    /\ \A t \in WorkerTerms(opts.fieldBoosts, doc) :
          /\ t \in DOMAIN termToIndex'
          /\ termToIndex'[t] \in DOMAIN termFrequencies'
          /\ id \in DOMAIN termFrequencies'[termToIndex'[t]]

\* C24: when a call merges, the index it leaves is the merge of the
\* slices' results taken in slice order, whatever the order in which the
\* workers finished, and the j-th document of slice i is stored under the id
\* (documents before the merge) + (size of the slices before i) + j.
C24_CompletionOrderIndependent ==
    [][\A c \in 1..MaxCalls :
          Merges(c) =>
            /\ This' = MergeParallel(This, calls[c].docs,
                          [ i \in 1..Len(calls[c].slices) |->
                              WorkerResult(opts.fieldBoosts, calls[c].slices[i]) ])
            /\ \A i \in 1..Len(calls[c].slices) :
                  \A j \in 1..Len(calls[c].slices[i]) :
                      StoredUnder(calls[c].slices[i][j],
                                  Len(documents) + SizeBefore(calls[c].slices, i) + j - 1)]_vars

\* a call of two non-empty slices has merged after its second worker
\* finished first
C24_Witness ==
    /\ outcome.op = "addDocumentsParallel"
    /\ outcome.err = "none"
    /\ Len(outcome.resp) = 2
    /\ outcome.order = <<2, 1>>
    /\ Len(documents) = 2
    /\ \E t \in DOMAIN termToIndex : 1 \in DOMAIN termFrequencies[termToIndex[t]]

\* the slices, in slice order, are consecutive runs of the batch that
\* together make up the batch: none overlaps another, none is out of order,
\* no element is left out
IsPartition(docs, slices) ==
    /\ Flatten(slices) = docs
    /\ \A i \in 1..Len(slices) :
          slices[i] = SubSeq(docs, SizeBefore(slices, i) + 1,
                             SizeBefore(slices, i) + Len(slices[i]))

\* a batch of n documents, each named by its position
Batch(n) == [ i \in 1..n |-> i ]

\* the slicing on its own: for every batch length 1..MaxBatch and every
\* number of CPUs 0..MaxCpus there is one slice per worker and the slices
\* are a partition of the batch
SlicingLaw ==
    \A n \in 1..MaxBatch : \A cpus \in 0..MaxCpus :
        /\ Len(Slices(Batch(n), NumWorkers(cpus))) = NumWorkers(cpus)
        /\ IsPartition(Batch(n), Slices(Batch(n), NumWorkers(cpus)))

\* C25: the slices of a batch are a partition of it into consecutive runs
\* in batch order, for every batch a call was started with and for every
\* batch length n >= 1 and worker count the code can choose, also when
\* there are more workers than documents.
C25_SlicesPartitionBatch ==
    /\ \A c \in DOMAIN calls : IsPartition(calls[c].docs, calls[c].slices)
    /\ SlicingLaw

\* a call was started with more workers than documents: one document, two
\* slices, the second one empty
C25_Witness ==
    \E c \in DOMAIN calls :
        /\ Len(calls[c].docs) = 1
        /\ Len(calls[c].slices) = 2
        /\ calls[c].slices[2] = <<>>

\* C26: every call that starts workers starts at least two, whatever the
\* number of CPUs.
C26_AtLeastTwoWorkers ==
    \A c \in DOMAIN calls : Len(calls[c].slices) >= 2

\* the call c, which has created workers, completes in this step
Completes(c) == c \in DOMAIN calls /\ c \notin DOMAIN calls'

\* C27: whenever a call that created workers completes, by resolving or
\* by rejecting, every worker it created has been asked to terminate by
\* the time its result or error is handed to the caller.
C27_WorkersTerminated ==
    [][\A c \in 1..MaxCalls :
          Completes(c) =>
            /\ outcome'.op = "addDocumentsParallel"
            /\ outcome'.resp = calls[c].resp
            /\ outcome'.terminated = 1..Len(calls[c].slices)]_vars

\* a call has rejected while one of its workers had not answered, and that
\* worker was asked to terminate
C27_Witness ==
    /\ outcome.op = "addDocumentsParallel"
    /\ outcome.err = "WorkerFailure"
    /\ \E i \in 1..Len(outcome.resp) :
          outcome.resp[i] = "pending" /\ i \in outcome.terminated

\* the call c is awaiting its workers
Awaiting(c) == c \in DOMAIN calls

\* every worker of the call has posted its result
AllDelivered(call) == \A i \in 1..Len(call.slices) : call.resp[i] = "message"

\* some worker of the call has raised an error
SomeFailed(call) == \E i \in 1..Len(call.slices) : call.resp[i] = "error"

\* C28: a call changes the index only in the step in which it completes
\* after every one of its workers has posted a result (starting a call and
\* the answers of workers change no field of the index); it completes only
\* when all have posted or one has raised an error, so while a worker stays
\* silent and none raises an error it neither completes nor changes the
\* index; and once all have posted or one has raised an error, the call
\* eventually completes.
C28_AwaitAll ==
    /\ [][/\ \A c \in 1..MaxCalls :
               Completes(c) =>
                  \/ AllDelivered(calls[c]) /\ outcome'.err = "none"
                  \/ /\ SomeFailed(calls[c])
                     /\ outcome'.err = "WorkerFailure"
                     /\ UNCHANGED indexVars
          /\ (calls' # calls /\ \A c \in 1..MaxCalls : ~Completes(c))
               => UNCHANGED indexVars]_vars
    /\ \A c \in 1..MaxCalls :
          (Awaiting(c) /\ (AllDelivered(calls[c]) \/ SomeFailed(calls[c])))
             ~> ~Awaiting(c)

\* a call of two workers has resolved after both had posted their results,
\* and its documents are in the index
C28_Witness ==
    /\ outcome.op = "addDocumentsParallel"
    /\ outcome.err = "none"
    /\ outcome.resp = <<"message", "message">>
    /\ calls = <<>>
    /\ documents # <<>>

\* term ids are 0..size-1 and no two terms share one
DenseBijection ==
    /\ TermIds = 0..(Cardinality(DOMAIN termToIndex) - 1)
    /\ \A v \in DOMAIN termToIndex : \A w \in DOMAIN termToIndex :
          termToIndex[v] = termToIndex[w] => v = w

\* every term id that keys TF is the id of a term
FrequencyKeysKnown == DOMAIN termFrequencies \subseteq TermIds

\* DF has a slot for every term id
FrequencySlots == \A t \in TermIds : t < Len(documentFrequency)

\* C29: in every reachable state the term ids are dense and the vocabulary
\* is a bijection, every term id that keys TF has a vocabulary entry, and
\* DF has an entry for every term id of the vocabulary.
C29_VocabularyInvariant ==
    DenseBijection /\ FrequencyKeysKnown /\ FrequencySlots

\* C30: with stemming disabled, the vocabulary holds no configured stop
\* word and no non-numeric term shorter than the configured minLength,
\* whichever operation brought the term in (the workers of
\* addDocumentsParallel included).
C30_VocabularyUnderIndexTokenizer ==
    ~opts.stemming =>
        \A t \in DOMAIN termToIndex :
            /\ t \notin opts.stopWords
            /\ isNumeric(t) \/ Len(t) >= opts.minLength

\* C31: in every reachable state of an index with stemming disabled, for
\* every term t of the vocabulary and every document d with TF[t][d] > 0,
\* search(t) with topK no smaller than the document count lists d with a
\* score > 0.
C31_EveryOccurrenceFindable ==
    ~opts.stemming =>
        \A t \in DOMAIN termToIndex :
            \A d \in DocsWithTerm(termToIndex[t]) : Finds(opts, This, t, d)

\* the tokens of the non-empty fields of a document under the options o
TermsUnder(o, doc) ==
    UNION { { Tokenize(o, doc.entries[k][2])[n] :
                n \in 1..Len(Tokenize(o, doc.entries[k][2])) } :
            k \in { k \in 1..Len(doc.entries) : ~TokenizeThrows(doc.entries[k][2]) } }

\* the text of the document produces the term, tokenized by the index or by
\* a worker
Produces(doc, term) ==
    \/ term \in TermsUnder(opts, doc)
    \/ term \in TermsUnder(WorkerOptions(opts.fieldBoosts), doc)

\* getDocumentCount() is the number of document-length slots
CountMatchesLengths == Len(documents) = Len(documentLengths)

\* every document id that keys TF is below the document count
FrequencyIdsStored ==
    \A t \in DOMAIN termFrequencies :
        \A d \in DOMAIN termFrequencies[t] : d < Len(documents)

\* a TF entry of a term for a stored id comes from the text of the document
\* stored at that id
FrequenciesFromStoredText ==
    \A term \in DOMAIN termToIndex :
        termToIndex[term] \in DOMAIN termFrequencies =>
            \A d \in DOMAIN termFrequencies[termToIndex[term]] :
                d < Len(documents) => Produces(documents[d + 1], term)

\* C32: in every reachable state, also after an add that failed, the number
\* of stored documents is the number of document-length slots, every
\* document id that keys TF is below the document count, and the document
\* stored at that id is the one whose text produced the TF entries.
C32_DocumentStoreConsistent ==
    CountMatchesLengths /\ FrequencyIdsStored /\ FrequenciesFromStoredText

\* the call c merges in this step after it has overlapped with other adds:
\* it was started on an empty index, and the documents built.docs have since
\* been added, all of them successfully, by addDocument calls or by another
\* addDocumentsParallel call that ran and completed while c was awaiting
\* its workers
OverlappedMerge(c) ==
    /\ Merges(c)
    /\ calls[c].onEmpty
    /\ built.by \in {"addDocument", "addDocumentsParallel"}

\* the index holds the documents of both, those added during the await
\* first, and the batch of c is a block of consecutive ids in batch order
OverlapKeepsBlocks(c) ==
    /\ documents' = built.docs \o calls[c].docs
    /\ \A j \in 1..Len(calls[c].docs) :
          StoredUnder(calls[c].docs[j], Len(built.docs) + j - 1)

\* lengths, TF, DF and average length are those of the index constructed
\* from the documents now stored, in their order
OverlapStatistics ==
    Statistics(This') = Statistics(Constructor(opts, documents'))

\* C33: when an addDocumentsParallel call has overlapped with addDocument
\* calls or with another addDocumentsParallel call on the same index and all
\* have completed successfully, the index contains every document of both,
\* each batch occupies a block of consecutive ids in its original order, and
\* lengths, TF, DF and average length are those of an index holding exactly
\* these documents in that order.
C33_OverlapLosesNothing ==
    [][\A c \in 1..MaxCalls :
          OverlappedMerge(c) => (OverlapKeepsBlocks(c) /\ OverlapStatistics)]_vars

====
